---- MODULE Spec2Model ----
(***************************************************************************)
(* Friends Bar round-robin orchestrator (src/src/friends_bar/orchestrator.py)*)
(* with its audit logger (src/src/utils/audit_log.py), as a state machine.  *)
(*                                                                         *)
(* One behaviour is one call of run_two_agent_dialogue.  The provider is   *)
(* the environment: every invoke call either raises or returns one reply   *)
(* drawn from a small alphabet of reply shapes.  A reply is described by   *)
(* what the parser, the validator and the safety gate read from it.        *)
(***************************************************************************)
EXTENDS Integers, Sequences, FiniteSets, TLC

(***************************************************************************)
(* Program constants.                                                      *)
(***************************************************************************)
DUFFY == "duffy"
LINA_BELL == "linabell"
STELLA == "stella"

AGENT_TURN_ORDER == <<DUFFY, LINA_BELL, STELLA>>

MAX_PROTOCOL_RETRY == 3

PLAN_SCHEMA_VERSION == "friendsbar.plan.v1"
DELIVERY_SCHEMA_VERSION == "friendsbar.delivery.v1"
REVIEW_SCHEMA_VERSION == "friendsbar.review.v1"

(***************************************************************************)
(* Bounds of the model.                                                    *)
(***************************************************************************)
MaxRounds == 3

(***************************************************************************)
(* Agent names.                                                            *)
(***************************************************************************)
\* The start-agent strings the model tries: a canonical id, a provider alias,
\* an upper-case spelling (resolved by the lower-case fallback) and a name
\* that is no alias at all.
StartNames == {"duffy", "codex", "STELLA", "nobody"}

AGENT_NAME_ALIASES ==
    [n \in {"codex", "claude-minimax", "claude_minimax", "gemini", "gemini-cli",
            "linabell", "duffy", "stella"} |->
        CASE n = "codex" -> LINA_BELL
          [] n = "claude-minimax" -> DUFFY
          [] n = "claude_minimax" -> DUFFY
          [] n = "gemini" -> STELLA
          [] n = "gemini-cli" -> STELLA
          [] n = "linabell" -> LINA_BELL
          [] n = "duffy" -> DUFFY
          [] n = "stella" -> STELLA]

\* str.lower() on the names of StartNames.
Lower(n) == IF n = "STELLA" THEN "stella" ELSE n

\* normalize_agent_name: "" stands for the ValueError of an unknown name.
normalize_agent_name(name) ==
    IF name \in DOMAIN AGENT_NAME_ALIASES THEN AGENT_NAME_ALIASES[name]
    ELSE IF Lower(name) \in DOMAIN AGENT_NAME_ALIASES
         THEN AGENT_NAME_ALIASES[Lower(name)]
         ELSE ""

IndexOf(s, x) == CHOOSE i \in 1..Len(s) : s[i] = x

InOrder(name) == \E i \in 1..Len(AGENT_TURN_ORDER) : AGENT_TURN_ORDER[i] = name

\* _next_agent with the index advanced by two.
_next_agent_skipping_one(current_name) ==
    IF ~InOrder(current_name) THEN AGENT_TURN_ORDER[1]
    ELSE AGENT_TURN_ORDER[((IndexOf(AGENT_TURN_ORDER, current_name) + 1) % Len(AGENT_TURN_ORDER)) + 1]

\* idx is 0-based in the source, 1-based here.
_next_agent(current_name) ==
    IF ~InOrder(current_name) THEN AGENT_TURN_ORDER[1]
    ELSE AGENT_TURN_ORDER[(IndexOf(AGENT_TURN_ORDER, current_name) % Len(AGENT_TURN_ORDER)) + 1]

\* _expected_schema_for_agent with the plan and delivery schemas exchanged.
_expected_schema_exchanged(agent_name) ==
    IF agent_name = DUFFY THEN DELIVERY_SCHEMA_VERSION
    ELSE IF agent_name = STELLA THEN REVIEW_SCHEMA_VERSION
    ELSE PLAN_SCHEMA_VERSION

_expected_schema_for_agent(agent_name) ==
    IF agent_name = DUFFY THEN PLAN_SCHEMA_VERSION
    ELSE IF agent_name = STELLA THEN REVIEW_SCHEMA_VERSION
    ELSE DELIVERY_SCHEMA_VERSION

(***************************************************************************)
(* Provider replies.                                                       *)
(*                                                                         *)
(* fmt            what json.loads / the fallbacks make of the raw text:    *)
(*                "empty"    nothing but whitespace                        *)
(*                "text"     not JSON, no embedded object, no review       *)
(*                           section header                                *)
(*                "array"    valid JSON that is not an object              *)
(*                "object"   one JSON object                               *)
(*                "embedded" text around one JSON object                   *)
(*                "plain_review" not JSON, but [验收结论]-style sections   *)
(* schema_version the payload's schema_version                             *)
(* body_errors    the codes validate_json_protocol_content appends for the *)
(*                fields other than schema_version                         *)
(* commands       the command strings of execution_evidence/verification,  *)
(*                each reduced to what the gate reads from it: whether a   *)
(*                deny pattern matches, whether an allow pattern matches,  *)
(*                whether an absolute path of it lies outside the workdir  *)
(* deliverables   for each deliverable the result declares what the        *)
(*                filesystem says of it                                    *)
(***************************************************************************)
Cmd(d, a, o) == [deny |-> d, allow |-> a, outside |-> o]

CmdGood == Cmd(FALSE, TRUE, FALSE)
CmdDenied == Cmd(TRUE, TRUE, FALSE)
CmdUnlisted == Cmd(FALSE, FALSE, FALSE)
CmdOutside == Cmd(FALSE, TRUE, TRUE)

Reply(f, sv, be, cs, ds) ==
    [fmt |-> f, schema_version |-> sv, body_errors |-> be, commands |-> cs,
     deliverables |-> ds]

NoReply == Reply("none", "", <<>>, <<>>, <<>>)

ReplyPlanOk == Reply("object", PLAN_SCHEMA_VERSION, <<>>, <<>>, <<>>)
ReplyDeliveryOk == Reply("object", DELIVERY_SCHEMA_VERSION, <<>>, <<CmdGood>>, <<>>)
ReplyReviewOk == Reply("embedded", REVIEW_SCHEMA_VERSION, <<>>, <<CmdGood, CmdGood>>, <<>>)
ReplyEmpty == Reply("empty", "", <<>>, <<>>, <<>>)
ReplyBadBody == Reply("object", REVIEW_SCHEMA_VERSION, <<"E_REVIEW_EVIDENCE_MISSING">>, <<CmdGood>>, <<>>)
ReplyDeliveryDenied == Reply("object", DELIVERY_SCHEMA_VERSION, <<>>, <<CmdGood, CmdDenied>>, <<>>)
ReplyReviewOutside == Reply("object", REVIEW_SCHEMA_VERSION, <<>>, <<CmdOutside, CmdGood>>, <<>>)
ReplyDeliveryMissing == Reply("object", DELIVERY_SCHEMA_VERSION, <<>>, <<CmdUnlisted>>, <<"ok", "missing">>)

\* The replies invoke may return in the model: for each role one reply that
\* passes every check, and for each check one reply that fails it.
Replies ==
    {ReplyPlanOk, ReplyDeliveryOk, ReplyReviewOk, ReplyEmpty, ReplyBadBody,
     ReplyDeliveryDenied, ReplyReviewOutside, ReplyDeliveryMissing}

(***************************************************************************)
(* Validation of one reply.                                                *)
(***************************************************************************)
NonEmpty(errs) == SelectSeq(errs, LAMBDA e : e # "")

\* _adapt_review_plain_text: the synthesized review has two
\* static_review_evidence_N commands (no pattern, no path in them).
AdaptedReview ==
    Reply("object", REVIEW_SCHEMA_VERSION, <<>>,
          <<Cmd(FALSE, FALSE, FALSE), Cmd(FALSE, FALSE, FALSE)>>, <<>>)

\* The payload _validate_agent_output hands to the validator; NoReply stands
\* for None (no JSON object could be obtained).
ParsedPayload(current_agent, output) ==
    CASE output.fmt = "object" -> output
      [] output.fmt = "embedded" -> [output EXCEPT !.fmt = "object"]
      [] output.fmt = "plain_review" ->
            IF current_agent = STELLA THEN AdaptedReview ELSE NoReply
      [] OTHER -> NoReply

\* validate_json_protocol_content, reduced to its error codes.  A result
\* that declares deliverables has a key the validator does not expect
\* (validators.py 519-527).
validate_json_protocol_content(current_agent, payload) ==
    (IF payload.schema_version # _expected_schema_for_agent(current_agent)
     THEN <<"E_SCHEMA_INVALID_ENUM">> ELSE <<>>)
    \o (IF payload.deliverables # <<>> THEN <<"E_SCHEMA_INVALID_FORMAT">> ELSE <<>>)
    \o payload.body_errors

\* _validate_agent_output: (is_valid, errors, parsed_content).
_validate_agent_output(current_agent, output) ==
    LET payload == ParsedPayload(current_agent, output) IN
    IF output.fmt = "empty" \/ payload = NoReply
    THEN [is_valid |-> FALSE, errors |-> <<"E_SCHEMA_INVALID_FORMAT">>,
          content |-> NoReply]
    ELSE LET errs == validate_json_protocol_content(current_agent, payload) IN
         [is_valid |-> errs = <<>>, errors |-> errs,
          content |-> [payload EXCEPT !.deliverables = <<>>]]

_collect_commands(protocol_content, agent_name) == protocol_content.commands

_command_policy_errors(commands, allowlist_nonempty) ==
    NonEmpty([i \in 1..Len(commands) |->
        IF commands[i].deny THEN "E_SAFETY_COMMAND_DENIED"
        ELSE IF allowlist_nonempty /\ ~commands[i].allow
             THEN "E_SAFETY_COMMAND_NOT_ALLOWED"
             ELSE ""])

_command_workdir_errors(commands) ==
    NonEmpty([i \in 1..Len(commands) |->
        IF commands[i].outside THEN "E_WORKDIR_COMMAND_OUTSIDE" ELSE ""])

_verify_delivery_deliverables(delivery_content) ==
    NonEmpty([i \in 1..Len(delivery_content.deliverables) |->
        CASE delivery_content.deliverables[i] = "outside" -> "E_DELIVERY_OUTSIDE_WORKDIR"
          [] delivery_content.deliverables[i] = "missing" -> "E_DELIVERY_MISSING_DELIVERABLE"
          [] delivery_content.deliverables[i] = "expect_dir" -> "E_DELIVERY_EXPECT_DIR"
          [] delivery_content.deliverables[i] = "expect_file" -> "E_DELIVERY_EXPECT_FILE"
          [] OTHER -> ""])

\* Validator plus safety gate of one attempt (orchestrator.py 1408-1492):
\* each later check runs only while is_valid still holds.
GateResult(agent, output, cfg) ==
    LET v == _validate_agent_output(agent, output)
        commands == _collect_commands(v.content, agent)
        safety_errors == _command_policy_errors(commands, cfg.allowlist_nonempty)
        v1 == IF v.is_valid /\ safety_errors # <<>>
              THEN [v EXCEPT !.is_valid = FALSE, !.errors = v.errors \o safety_errors]
              ELSE v
        workdir_errors == _command_workdir_errors(commands)
        v2 == IF v1.is_valid /\ agent \in {LINA_BELL, STELLA} /\ workdir_errors # <<>>
              THEN [v1 EXCEPT !.is_valid = FALSE, !.errors = v1.errors \o workdir_errors]
              ELSE v1
        delivery_errors == _verify_delivery_deliverables(v.content)
        v3 == IF /\ v2.is_valid
                 /\ agent = LINA_BELL
                 /\ cfg.response_mode = "execute"
                 /\ ~cfg.read_only
                 /\ delivery_errors # <<>>
              THEN [v2 EXCEPT !.is_valid = FALSE, !.errors = v2.errors \o delivery_errors]
              ELSE v2
    IN  [is_valid |-> v3.is_valid, errors |-> v3.errors, content |-> v3.content,
         workdir_failed |-> v1.is_valid /\ ~v2.is_valid,
         delivery_failed |-> v2.is_valid /\ ~v3.is_valid]

(***************************************************************************)
(* State of one run of run_two_agent_dialogue.                             *)
(***************************************************************************)
VARIABLES
    cfg,                \* arguments and configuration of the run
    pc,                 \* position in run_two_agent_dialogue
    turn,               \* loop variable of the turn loop
    current_agent,
    transcript,
    run_error,
    dry_run_payload,
    dry_run_triggered,
    attempt_count,
    adjusted_prompt,    \* the prompt built last
    extra_instruction,
    result,             \* the reply invoke returned last
    is_valid,
    protocol_errors,
    structured_content,
    log,                \* the events of the .jsonl file, in order
    summary_file,       \* the content of the .summary.json file
    finalize_calls,     \* the status of every AuditLogger.finalize call
    invoke_calls,       \* per turn, how often invoke was called
    replies_valid       \* no invoke call so far raised or returned a reply
                        \* that is not a valid payload for the acting agent

vars == <<cfg, pc, turn, current_agent, transcript, run_error, dry_run_payload,
          dry_run_triggered, attempt_count, adjusted_prompt, extra_instruction,
          result, is_valid, protocol_errors, structured_content, log,
          summary_file, finalize_calls, invoke_calls, replies_valid>>

None == "None"

NoPrompt == [turn |-> 0, attempt |-> 0, agent |-> "", extra_instruction |-> <<>>]

NoError == [error_type |-> None, errors |-> <<>>, turns_completed |-> 0]

NoSummary == [status |-> None, turns_completed |-> 0, dry_run |-> FALSE, error |-> NoError]

(***************************************************************************)
(* The invoke gateway (src/src/invoke.py) with the session store            *)
(* (src/src/utils/session_store.py).                                        *)
(*                                                                         *)
(* One behaviour of SpecInvoke is one call of invoke.  The provider         *)
(* function is the environment: every call of it returns a result or raises *)
(* a ProcessExecutionError.  Texts that the code searches are sequences of  *)
(* characters.                                                             *)
(***************************************************************************)
MaxRetryAttempts == 2

UPPER_CASE ==
    <<"A", "B", "C", "D", "E", "F", "G", "H", "I", "J", "K", "L", "M", "N", "O", "P", "Q", "R", "S", "T", "U", "V", "W", "X", "Y", "Z">>

LOWER_CASE ==
    <<"a", "b", "c", "d", "e", "f", "g", "h", "i", "j", "k", "l", "m", "n", "o", "p", "q", "r", "s", "t", "u", "v", "w", "x", "y", "z">>

\* str.lower(), character by character.
LowerChar(c) ==
    IF \E i \in 1..Len(UPPER_CASE) : UPPER_CASE[i] = c
    THEN LOWER_CASE[CHOOSE i \in 1..Len(UPPER_CASE) : UPPER_CASE[i] = c]
    ELSE c

LowerText(text) == [i \in 1..Len(text) |-> LowerChar(text[i])]

\* keyword in text
Contains(text, keyword) ==
    \E i \in 1..(Len(text) - Len(keyword) + 1) :
        SubSeq(text, i, i + Len(keyword) - 1) = keyword

\* " ".join(lines)
RECURSIVE JoinLines(_)
JoinLines(lines) ==
    IF lines = <<>> THEN <<>>
    ELSE IF Len(lines) = 1 THEN lines[1]
    ELSE lines[1] \o <<" ">> \o JoinLines(Tail(lines))

\* ProcessExecutionError.stderr_tail: the last 20 lines.
stderr_tail(stderr_lines) ==
    IF Len(stderr_lines) <= 20 THEN stderr_lines
    ELSE SubSeq(stderr_lines, Len(stderr_lines) - 19, Len(stderr_lines))

retry_keywords ==
    <<<<"t", "i", "m", "e", "o", "u", "t">>,
      <<"t", "e", "m", "p", "o", "r", "a", "r", "i", "l", "y">>,
      <<"t", "r", "y", " ", "a", "g", "a", "i", "n">>,
      <<"4", "2", "9">>,
      <<"5", "0", "3">>,
      <<"5", "0", "4">>,
      <<"c", "o", "n", "n", "e", "c", "t", "i", "o", "n">>,
      <<"n", "e", "t", "w", "o", "r", "k">>,
      <<"r", "a", "t", "e", " ", "l", "i", "m", "i", "t">>>>

\* A classification that takes every process error for transient.
_is_retryable_whatever(error) == TRUE

_is_retryable_process_error(error) ==
    IF error.reason \in {"idle_timeout", "max_timeout"} THEN TRUE
    ELSE IF error.reason # "nonzero_exit" THEN FALSE
    ELSE LET stderr_text == LowerText(JoinLines(stderr_tail(error.stderr_lines)))
         IN  \E k \in 1..Len(retry_keywords) : Contains(stderr_text, retry_keywords[k])

\* The process errors the provider raises in the model.
ProcessError(reason, stderr_lines) == [reason |-> reason, stderr_lines |-> stderr_lines]

NoProcessError == ProcessError("", <<>>)

ErrIdleTimeout == ProcessError("idle_timeout", <<>>)
ErrMaxTimeout == ProcessError("max_timeout", <<>>)
ErrLaunch == ProcessError("launch_error", <<>>)
ErrParentSignal == ProcessError("parent_signal", <<<<"C", "o", "n", "n", "e", "c", "t", "i", "o", "n", " ", "c", "l", "o", "s", "e", "d">>>>)
ErrCallback == ProcessError("callback_error", <<>>)
ErrNonzeroPlain == ProcessError("nonzero_exit", <<<<"b", "o", "o", "m">>>>)
ErrNonzeroKeyword ==
    ProcessError("nonzero_exit",
        <<<<"H", "T", "T", "P", " ", "5", "0", "3">>,
          <<"T", "r", "y", " ", "A", "g", "a", "i", "n", " ", "l", "a", "t", "e", "r">>>>)
ErrSslBadRecord ==
    ProcessError("nonzero_exit",
        <<<<"E", "R", "R", "_", "S", "S", "L", "_", "S", "S", "L", "/", "T", "L", "S", "_", "A", "L", "E", "R", "T", "_", "B", "A", "D", "_", "R", "E", "C", "O", "R", "D", "_", "M", "A", "C">>>>)
ErrStaleSession ==
    ProcessError("nonzero_exit",
        <<<<"N", "o", " ", "c", "o", "n", "v", "e", "r", "s", "a", "t", "i", "o", "n", " ", "f", "o", "u", "n", "d", " ", "w", "i", "t", "h", " ", "s", "e", "s", "s", "i", "o", "n", " ", "I", "D", ":", " ", "s", "t", "a", "l", "e", "-", "i", "d">>>>)

ProcessErrors ==
    {ErrIdleTimeout, ErrMaxTimeout, ErrLaunch, ErrParentSignal, ErrCallback,
     ErrNonzeroPlain, ErrNonzeroKeyword, ErrSslBadRecord, ErrStaleSession}

\* Session ids: None, strings that strip() empties, and two proper ids.
SessionIds == {None, "", " ", "stale-id", "fresh-id"}

\* isinstance(s, str) and s.strip()
ProperSessionId(s) == s \notin {None, "", " "}

\* The values retry_backoff_s takes in the model.
RetryBackoffs == {0, 1, 3}

RECURSIVE Pow2(_)
Pow2(n) == IF n = 0 THEN 1 ELSE 2 * Pow2(n - 1)

\* invoke.py, PROVIDERS: the keys of the dispatch table.
PROVIDERS == {"codex", "claude-minimax"}

\* invoke.py, CLI_ALIASES, without the display names.
CLI_ALIASES ==
    [n \in {"claude_minimax", "linabell", "duffy"} |->
        CASE n = "claude_minimax" -> "claude-minimax"
          [] n = "linabell" -> "codex"
          [] n = "duffy" -> "claude-minimax"]

\* The cli arguments the model tries: the agent ids of the turn order, and
\* one of them in upper case.
Clis == {DUFFY, LINA_BELL, STELLA, "STELLA"}

\* _normalize_cli: the alias of the name or of its lower-case form, else the
\* lower-case form.
_normalize_cli(cli) ==
    IF cli \in DOMAIN CLI_ALIASES THEN CLI_ALIASES[cli]
    ELSE IF Lower(cli) \in DOMAIN CLI_ALIASES THEN CLI_ALIASES[Lower(cli)]
    ELSE Lower(cli)

\* agents.py, AGENTS: the provider of each profile.
AGENTS ==
    [n \in {LINA_BELL, DUFFY, STELLA} |->
        [provider |-> CASE n = LINA_BELL -> "codex"
                        [] n = DUFFY -> "claude-minimax"
                        [] n = STELLA -> "gemini"]]

VARIABLES
    invoke_args,        \* arguments and configuration of the invoke call
    invoke_pc,          \* position in invoke
    attempt,
    last_session_id,
    provider_calls,     \* the session_id argument of every provider call
    sleeps,             \* the argument of every time.sleep call
    provider_error,     \* the error the provider raised last
    invoke_result,
    session_store,      \* the sessionId stored for the provider
    store_reads,        \* number of get_session_id calls
    store_writes        \* number of set_session_id calls

invoke_vars == <<invoke_args, invoke_pc, attempt, last_session_id, provider_calls,
                 sleeps, provider_error, invoke_result, session_store,
                 store_reads, store_writes>>

NoResult == [session_id |-> None, retry_count |-> 0]

\* use_session and the provider-level setting are "true", "false" or None (not
\* given); defaults.use_session is a bool after load_runtime_config.
NoArgs ==
    [cli |-> DUFFY, use_session |-> None, defaults_use_session |-> TRUE,
     provider_use_session |-> None, retry_attempts |-> 0, retry_backoff_s |-> 0]

\* No invoke call is modelled.
InvokeOff ==
    /\ invoke_args = NoArgs
    /\ invoke_pc = "off"
    /\ attempt = 0
    /\ last_session_id = None
    /\ provider_calls = <<>>
    /\ sleeps = <<>>
    /\ provider_error = NoProcessError
    /\ invoke_result = NoResult
    /\ session_store = None
    /\ store_reads = 0
    /\ store_writes = 0

(***************************************************************************)
(* utils/process_runner.py: a child process, one drainer thread per pipe,  *)
(* and the supervisor loop of run_stream_process.                          *)
(***************************************************************************)
\* The last reading of the monotonic clock a run is followed to.
MaxClock == 3

NL == "\n"
CR == "\r"

Sources == {"stdout", "stderr"}

\* What a child writes on stdout: nothing, a line ending in \r\n, a line and
\* a trailing piece without newline.
StdoutTexts ==
    { <<>>,
      <<"a", CR, NL>>,
      <<"a", NL, "b">> }

\* What a child writes on stderr.
StderrTexts == { <<>>, <<"e", NL>> }

\* str.rstrip("\r").
RECURSIVE rstrip_cr(_)
rstrip_cr(text) ==
    IF text # <<>> /\ text[Len(text)] = CR
    THEN rstrip_cr(SubSeq(text, 1, Len(text) - 1))
    ELSE text

\* str.strip() over the characters of StdoutTexts and StderrTexts.
RECURSIVE lstrip(_)
lstrip(text) ==
    IF text # <<>> /\ text[1] \in {CR, NL, " "} THEN lstrip(Tail(text)) ELSE text

RECURSIVE rstrip(_)
rstrip(text) ==
    IF text # <<>> /\ text[Len(text)] \in {CR, NL, " "}
    THEN rstrip(SubSeq(text, 1, Len(text) - 1))
    ELSE text

strip(text) == rstrip(lstrip(text))

\* buffer.find("\n"), counted from 1; 0 when there is none.
find_newline(buffer) ==
    IF \E i \in 1..Len(buffer) : buffer[i] = NL
    THEN CHOOSE i \in 1..Len(buffer) :
             /\ buffer[i] = NL
             /\ \A j \in 1..(i - 1) : buffer[j] # NL
    ELSE 0

\* Return codes, as Popen reports them: the child's own exit code, or the
\* negated number of the signal that ended it.
SIGTERM_CODE == "-15"
SIGKILL_CODE == "-9"
ExitCodes == {"0", "1"}

IdleTimeouts == {0, 1}
MaxTimeouts == {1, 2}

\* The longest terminate_grace_s of a call, and the grace periods followed.
MaxGrace == 1
GracePeriods == {0, MaxGrace}

\* queue.Queue() of line 197: maxsize is 0, and a queue whose maxsize is not
\* positive is never full.
maxsize == 0

\* queue.Queue.full().
full(q) == maxsize > 0 /\ Len(q) >= maxsize

\* The signals run_stream_process installs its handler for.
Signals == {"SIGINT", "SIGTERM"}

\* What signal.getsignal gives before the call: the default action, Python's
\* handler of SIGINT, or None for a handler that was not installed from
\* Python.
PreviousHandlers ==
    { [SIGINT |-> "default_int_handler", SIGTERM |-> "SIG_DFL"],
      [SIGINT |-> "default_int_handler", SIGTERM |-> "None"],
      [SIGINT |-> "None", SIGTERM |-> "SIG_DFL"] }

VARIABLES
    run_args,           \* the child's behaviour, the timeouts, the callback
    child_alive,        \* process.poll() is None
    return_code,        \* process.returncode
    written,            \* characters the child has written on each pipe
    consumed,           \* characters each drainer has read from its pipe
    buffer,             \* _drain_text_stream's buffer, by source
    drainer_pc,         \* position of each drainer
    line_queue,
    delivered,          \* the lines passed to on_stdout_line, in call order
    stderr_lines,
    sup_pc,             \* position of the supervisor
    max_exceeded,       \* (now - start) > timeout.max_timeout_s, as last computed
    terminated_reason,
    term_reason,        \* argument of the terminate_process call in progress
    term_return,        \* where that call returns to
    stop_signals,       \* the reasons process.terminate() was called for
    term_pending,       \* a terminate() signal is on its way to the child
    kill_pending,       \* a kill() signal is on its way to the child
    stop_event,
    signal_received,
    raised_reason,      \* reason of the ProcessExecutionError raised
    now,                \* time.monotonic(), with start = 0
    last_activity,
    grace_deadline,     \* deadline of the terminate_process call in progress
    handler_pc,         \* position of signal_handler, "none" when it does not run
    handler_deadline,   \* deadline of the handler's terminate_process call
    handlers,           \* the handler signal.getsignal gives, by signal
    atexit_registered,  \* atexit_cleanup is registered
    first_reason,       \* the first value terminated_reason was given
    last_reason,        \* the reason of the last process.terminate() call
    kill_signals,       \* the reasons process.kill() was called for
    last_read           \* the time of the last chunk read, by source

\* What is recorded of the call beyond the program's own state.
hist_vars == <<first_reason, last_reason, kill_signals, last_read>>

hook_vars == <<handlers, atexit_registered>>

handler_vars == <<handler_pc, handler_deadline>>

runner_vars == <<run_args, child_alive, return_code, written, consumed, buffer,
                 drainer_pc, line_queue, delivered, stderr_lines, sup_pc,
                 max_exceeded, terminated_reason,
                 term_reason, term_return, stop_signals, term_pending,
                 kill_pending, stop_event, signal_received, raised_reason, now,
                 last_activity, grace_deadline, handler_vars, hook_vars,
                 hist_vars>>

NoRunArgs ==
    [stdout |-> <<>>, stderr |-> <<>>, exits |-> TRUE, exit_code |-> "0",
     obeys_terminate |-> TRUE, idle_timeout_s |-> 1, max_timeout_s |-> 2,
     terminate_grace_s |-> 0, callback_raises_at |-> 0, signalled |-> FALSE,
     previous |-> [SIGINT |-> "default_int_handler", SIGTERM |-> "SIG_DFL"],
     main_thread |-> TRUE]

\* Lines 244-254: signal.signal(sig, signal_handler) for each signal; outside
\* the main thread it raises ValueError and the handler stays.
installed(args) ==
    [sig \in Signals |-> IF args.main_thread THEN "signal_handler"
                          ELSE args.previous[sig]]

\* The state of a call with the given arguments before anything was written,
\* read or signalled, with the given handlers and exit hook.
RunnerFresh(args, handlers_now, hook_now) ==
    /\ run_args = args
    /\ child_alive = TRUE
    /\ return_code = None
    /\ written = [s \in Sources |-> 0]
    /\ consumed = [s \in Sources |-> 0]
    /\ buffer = [s \in Sources |-> <<>>]
    /\ drainer_pc = [s \in Sources |-> "read"]
    /\ line_queue = <<>>
    /\ delivered = <<>>
    /\ stderr_lines = <<>>
    /\ max_exceeded = FALSE
    /\ terminated_reason = None
    /\ term_reason = None
    /\ term_return = None
    /\ stop_signals = {}
    /\ term_pending = FALSE
    /\ kill_pending = FALSE
    /\ stop_event = FALSE
    /\ signal_received = FALSE
    /\ raised_reason = None
    /\ now = 0
    /\ last_activity = 0
    /\ grace_deadline = 0
    /\ handler_pc = "none"
    /\ handler_deadline = 0
    /\ handlers = handlers_now
    /\ atexit_registered = hook_now
    /\ first_reason = None
    /\ last_reason = None
    /\ kill_signals = {}
    /\ last_read = [s \in Sources |-> 0]

\* The state right after the child and both drainers were started (lines
\* 192-315) and each drainer entered its loop, for a call with the given
\* arguments.
RunnerStarted(args) == RunnerFresh(args, installed(args), TRUE)

\* No run_stream_process call is modelled.
RunnerOff ==
    /\ RunnerFresh(NoRunArgs, NoRunArgs.previous, FALSE)
    /\ sup_pc = "off"

(***************************************************************************)
(* providers/codex.py, providers/gemini.py, providers/claude_minimax.py:   *)
(* the text an adapter makes of the events of one stream.                  *)
(***************************************************************************)
Providers == {"codex", "gemini", "claude-minimax"}

\* Final texts: plain text, a JSON object, plain text ending in a newline.
FinalTexts ==
    { <<"H", "i", "!">>,
      <<"{", "}">>,
      <<"H", "i", NL>> }

WHITESPACE == {" ", NL, CR}

\* The index of the first character at or after idx that is not whitespace;
\* 0 when there is none.
SkipWhitespace(text, idx) ==
    IF \E i \in idx..Len(text) : text[i] \notin WHITESPACE
    THEN CHOOSE i \in idx..Len(text) :
             /\ text[i] \notin WHITESPACE
             /\ \A j \in idx..(i - 1) : text[j] \in WHITESPACE
    ELSE 0

QUOTE == "\""

DIGITS == {"1", "2"}

\* What raw_decode gives when it raises JSONDecodeError.
NoValue == [end |-> 0, dump |-> <<>>]

\* The index of the first character after idx that is not a digit.
RECURSIVE EndOfDigits(_, _)
EndOfDigits(text, idx) ==
    IF idx <= Len(text) /\ text[idx] \in DIGITS
    THEN EndOfDigits(text, idx + 1)
    ELSE idx

\* The index of the closing quote of the string whose content starts at idx;
\* 0 when the string is not terminated or holds a control character.
RECURSIVE EndOfString(_, _)
EndOfString(text, idx) ==
    IF idx > Len(text) \/ text[idx] \in {NL, CR} THEN 0
    ELSE IF text[idx] = QUOTE THEN idx
    ELSE EndOfString(text, idx + 1)

\* json.JSONDecoder.raw_decode at idx, for the JSON that the characters
\* { } [ ] : " a 1 2 and whitespace spell: integers, strings, arrays of at
\* most one element and objects of at most one member (there is no comma).
\* end is the index after the value, 0 for a JSONDecodeError; dump is
\* json.dumps(value, ensure_ascii=False, separators=(",", ":")), and two of
\* these values are equal in Python exactly when their dumps are.
RECURSIVE raw_decode(_, _)
raw_decode(text, idx) ==
    IF idx > Len(text) THEN NoValue
    ELSE CASE text[idx] \in DIGITS ->
                LET end == EndOfDigits(text, idx)
                IN  [end |-> end, dump |-> SubSeq(text, idx, end - 1)]
           [] text[idx] = QUOTE ->
                LET close == EndOfString(text, idx + 1)
                IN  IF close = 0 THEN NoValue
                    ELSE [end |-> close + 1, dump |-> SubSeq(text, idx, close)]
           [] text[idx] = "[" ->
                LET first == SkipWhitespace(text, idx + 1)
                IN  IF first = 0 THEN NoValue
                    ELSE IF text[first] = "]"
                    THEN [end |-> first + 1, dump |-> <<"[", "]">>]
                    ELSE LET value == raw_decode(text, first)
                             close == IF value.end = 0 THEN 0
                                      ELSE SkipWhitespace(text, value.end)
                         IN  IF close # 0 /\ text[close] = "]"
                             THEN [end |-> close + 1,
                                   dump |-> <<"[">> \o value.dump \o <<"]">>]
                             ELSE NoValue
           [] text[idx] = "{" ->
                LET first == SkipWhitespace(text, idx + 1)
                IN  IF first = 0 THEN NoValue
                    ELSE IF text[first] = "}"
                    THEN [end |-> first + 1, dump |-> <<"{", "}">>]
                    ELSE IF text[first] # QUOTE THEN NoValue
                    ELSE LET key_close == EndOfString(text, first + 1)
                             colon == IF key_close = 0 THEN 0
                                      ELSE SkipWhitespace(text, key_close + 1)
                             start == IF colon # 0 /\ text[colon] = ":"
                                      THEN SkipWhitespace(text, colon + 1)
                                      ELSE 0
                             value == IF start = 0 THEN NoValue
                                      ELSE raw_decode(text, start)
                             close == IF value.end = 0 THEN 0
                                      ELSE SkipWhitespace(text, value.end)
                         IN  IF close # 0 /\ text[close] = "}"
                             THEN [end |-> close + 1,
                                   dump |-> <<"{">> \o SubSeq(text, first, key_close)
                                            \o <<":">> \o value.dump \o <<"}">>]
                             ELSE NoValue
           [] OTHER -> NoValue

\* The loop of _collapse_repeated_json_objects from idx on: the dumps of the
\* JSON values the text is a concatenation of; ok is FALSE when some part of
\* it does not decode.
RECURSIVE DecodeValues(_, _)
DecodeValues(text, idx) ==
    LET start == SkipWhitespace(text, idx)
    IN  IF idx > Len(text) \/ start = 0 THEN [ok |-> TRUE, values |-> <<>>]
        ELSE LET value == raw_decode(text, start)
             IN  IF value.end = 0 THEN [ok |-> FALSE, values |-> <<>>]
                 ELSE LET rest == DecodeValues(text, value.end)
                      IN  [ok |-> rest.ok, values |-> <<value.dump>> \o rest.values]

\* A collapse that never compares the values with the first.
_collapse_to_first_value(text) ==
    LET normalized == strip(text)
        decoded == DecodeValues(normalized, 1)
    IN  IF normalized = <<>> THEN <<>>
        ELSE IF ~decoded.ok \/ Len(decoded.values) <= 1 THEN normalized
        ELSE decoded.values[1]

\* claude_minimax._collapse_repeated_json_objects.
_collapse_repeated_json_objects(text) ==
    LET normalized == strip(text)
        decoded == DecodeValues(normalized, 1)
    IN  IF normalized = <<>> THEN <<>>
        ELSE IF ~decoded.ok \/ Len(decoded.values) <= 1 THEN normalized
        ELSE IF \A i \in 2..Len(decoded.values) : decoded.values[i] = decoded.values[1]
        THEN decoded.values[1]
        ELSE normalized

\* claude_minimax._is_json_object: json.loads accepts one value with
\* whitespace around it; a dict is dumped with a leading brace.
_is_json_object(text) ==
    LET decoded == DecodeValues(text, 1)
    IN  /\ decoded.ok
        /\ Len(decoded.values) = 1
        /\ decoded.values[1][1] = "{"

\* The (is JSON object, length) score of a candidate of _pick_final_text.
ScoreOf(current) == <<IF _is_json_object(current) THEN 1 ELSE 0, Len(current)>>

\* A candidate replaces the best so far when it is not empty and its score is
\* the greater tuple.
Wins(current, score, best_score) ==
    /\ current # <<>>
    /\ \/ score[1] > best_score[1]
       \/ score[1] = best_score[1] /\ score[2] > best_score[2]

\* The best of the candidates from index i on, given the best so far.
RECURSIVE PickBest(_, _, _, _)
PickAfter(candidates, i, best_text, best_score, current, score, wins) ==
    PickBest(candidates, i + 1,
             IF wins THEN current ELSE best_text,
             IF wins THEN score ELSE best_score)

PickScored(candidates, i, best_text, best_score, current, score) ==
    PickAfter(candidates, i, best_text, best_score, current, score,
              Wins(current, score, best_score))

PickCollapsed(candidates, i, best_text, best_score, current) ==
    PickScored(candidates, i, best_text, best_score, current, ScoreOf(current))

PickBest(candidates, i, best_text, best_score) ==
    IF i > Len(candidates) THEN best_text
    ELSE PickCollapsed(candidates, i, best_text, best_score,
                       _collapse_repeated_json_objects(candidates[i]))

RECURSIVE JoinParts(_)
JoinParts(parts) ==
    IF parts = <<>> THEN <<>> ELSE Head(parts) \o JoinParts(Tail(parts))

\* claude_minimax._pick_final_text.
_pick_final_text(result_txt, assistant_txt, parts) ==
    PickBest(<<result_txt, assistant_txt, JoinParts(parts)>>, 1, <<>>, <<-1, -1>>)

\* What gemini falls back to when the stream gave no text: the raw stdout
\* lines, joined.
RawStdoutLines == <<"r", "a", "w">>

\* gemini._pick_final_text in stream-json mode, where response_text stays "".
_pick_gemini_final_text(parts) ==
    IF strip(JoinParts(parts)) # <<>> THEN JoinParts(parts) ELSE RawStdoutLines

\* A codex event that carries a final message and is read once a delta was
\* seen still gives its text.
_extract_assistant_text_again(event, saw_delta) ==
    [text |-> event.text,
     saw_delta |-> saw_delta \/ event.type = "agent_message_delta"]

\* codex._extract_assistant_text: the text an event adds, and saw_delta after
\* it.
_extract_assistant_text(event, saw_delta) ==
    IF event.json # "object"
    THEN [text |-> <<>>, saw_delta |-> saw_delta]
    ELSE IF event.type = "agent_message_delta"
    THEN [text |-> event.text, saw_delta |-> TRUE]
    ELSE IF event.type \in {"item.completed", "agent_message", "assistant"}
    THEN [text |-> IF saw_delta THEN <<>> ELSE event.text, saw_delta |-> saw_delta]
    ELSE [text |-> <<>>, saw_delta |-> saw_delta]

\* gemini._extract_assistant_text.
_extract_gemini_text(event, saw_delta) ==
    IF event.json # "object"
    THEN [text |-> <<>>, saw_delta |-> saw_delta]
    ELSE IF event.type = "message" /\ event.text # <<>>
    THEN IF event.delta
         THEN [text |-> event.text, saw_delta |-> TRUE]
         ELSE [text |-> IF saw_delta THEN <<>> ELSE event.text,
               saw_delta |-> saw_delta]
    ELSE [text |-> <<>>, saw_delta |-> saw_delta]

DeltaType(provider) ==
    CASE provider = "codex" -> "agent_message_delta"
      [] provider = "gemini" -> "message"
      [] provider = "claude-minimax" -> "stream_event"

FinalTypes(provider) ==
    CASE provider = "codex" -> {"agent_message", "item.completed"}
      [] provider = "gemini" -> {"message"}
      [] provider = "claude-minimax" -> {"assistant", "result"}

\* The ways to cut a text into chunks that are not empty.
RECURSIVE Chunkings(_)
Chunkings(text) ==
    IF text = <<>> THEN {<<>>}
    ELSE UNION { { <<SubSeq(text, 1, n)>> \o rest :
                     rest \in Chunkings(SubSeq(text, n + 1, Len(text))) } :
                 n \in 1..Len(text) }

\* The streams in which a text comes as delta chunks and as one final
\* message, at any place among the chunks.
Streams(provider, text) ==
    { LET deltas == [i \in 1..Len(chunks) |->
                        [json |-> "object", type |-> DeltaType(provider),
                         delta |-> TRUE, text |-> chunks[i]]]
          final == [json |-> "object", type |-> final_type, delta |-> FALSE,
                    text |-> text]
      IN  SubSeq(deltas, 1, at) \o <<final>> \o SubSeq(deltas, at + 1, Len(deltas)) :
      <<chunks, at, final_type>> \in
         { <<c, a, f>> \in Chunkings(text) \X (0..Len(text)) \X FinalTypes(provider) :
              a <= Len(c) } }

\* What json.loads makes of a line that is no event of the provider: nothing
\* (JSONDecodeError), a value that is no object, or an object of a type the
\* provider does not know.
Unrecognized ==
    { [json |-> kind, type |-> "none", delta |-> FALSE, text |-> <<>>] :
        kind \in {"invalid", "array", "number", "string", "null"} }
    \cup
    { [json |-> "object", type |-> "unknown", delta |-> FALSE, text |-> <<>>] }

\* The streams above with one such line at any place.
NoisyStreams(provider, text) ==
    { SubSeq(stream, 1, at) \o <<noise>> \o SubSeq(stream, at + 1, Len(stream)) :
      <<stream, at, noise>> \in
         { <<s, a, n>> \in Streams(provider, text) \X (0..(Len(text) + 1))
                               \X Unrecognized : a <= Len(s) } }

VARIABLES
    adapter_args,       \* the provider, the final text and the stream
    adapter_pc,
    events_left,        \* the events not yet given to on_stdout_line
    saw_delta,          \* state["saw_delta"]
    output_parts,       \* state["output_parts"]
    delta_parts,        \* state["delta_parts"]
    assistant_text,     \* state["assistant_text"]
    result_text,        \* state["result_text"]
    adapter_text        \* the "text" of the adapter's result

adapter_vars == <<adapter_args, adapter_pc, events_left, saw_delta, output_parts,
                  delta_parts, assistant_text, result_text, adapter_text>>

NoAdapterArgs == [provider |-> "codex", text |-> <<>>, stream |-> <<>>]

\* The state dictionary an adapter starts with, for a call with the given
\* arguments.
AdapterStarted(args) ==
    /\ adapter_args = args
    /\ events_left = args.stream
    /\ saw_delta = FALSE
    /\ output_parts = <<>>
    /\ delta_parts = <<>>
    /\ assistant_text = <<>>
    /\ result_text = <<>>
    /\ adapter_text = <<>>

\* No adapter call is modelled.
AdapterOff ==
    /\ AdapterStarted(NoAdapterArgs)
    /\ adapter_pc = "off"

(***************************************************************************)
(* providers/claude_minimax.py: _collapse_repeated_json_objects as a       *)
(* function of its text.                                                   *)
(***************************************************************************)
MaxPieces == 3

\* What the texts are made of: JSON objects in compact form and with
\* whitespace in them, equal and different ones, values that are no objects,
\* whitespace, and a character that starts no JSON value.
Pieces ==
    { <<"{", "}">>,
      <<"{", " ", "}">>,
      <<"{", QUOTE, "a", QUOTE, ":", "1", "}">>,
      <<"{", QUOTE, "a", QUOTE, ":", "2", "}">>,
      <<"{", QUOTE, "a", QUOTE, ":", " ", "1", "}">>,
      <<"[", "]">>,
      <<"1">>,
      <<QUOTE, "a", QUOTE>>,
      <<" ">>,
      <<"x">> }

\* The texts that are n pieces in a row.
RECURSIVE PieceTexts(_)
PieceTexts(n) ==
    IF n = 0 THEN {<<>>}
    ELSE {piece \o text : piece \in Pieces, text \in PieceTexts(n - 1)}

CollapseTexts == UNION {PieceTexts(n) : n \in 0..MaxPieces}

VARIABLES
    collapse_text,      \* the argument
    collapse_pc,        \* "off", "start", "once", "twice"
    collapsed,          \* _collapse_repeated_json_objects(text)
    collapsed_again     \* the function applied to its own result

collapse_vars == <<collapse_text, collapse_pc, collapsed, collapsed_again>>

\* No call of the function is modelled.
CollapseOff ==
    /\ collapse_text = <<>>
    /\ collapse_pc = "off"
    /\ collapsed = <<>>
    /\ collapsed_again = <<>>

(***************************************************************************)
(* protocol/validators.py and the safety gate of orchestrator.py: what one *)
(* attempt does with the payload of a reply.  A JSON value is a record     *)
(* with its type; names and enum values are strings, free text (questions, *)
(* commands, paths) is a sequence of characters.                           *)
(***************************************************************************)
MaxItems == 2

JAbsent == [type |-> "absent"]
JNull == [type |-> "null"]
JStr(s) == [type |-> "str", s |-> s]
JList(items) == [type |-> "list", items |-> items]

\* payload.get(key) is None: the key is missing or its value is null.
IsNone(v) == v.type \in {"absent", "null"}

\* Lists and dicts cannot be looked up in a set: "x in {...}" raises TypeError.
Unhashable(v) == v.type \in {"list", "dict"}

IsString(v) == v.type = "str"

\* "value not in allowed" for a hashable value.
NotIn(v, allowed) == ~(IsString(v) /\ v.s \in allowed)

ALLOWED_STATUS == {"ok", "partial", "failed"}
ALLOWED_ACCEPTANCE == {"pass", "conditional", "fail"}
ALLOWED_GATE_DECISION == {"allow", "conditional", "block"}
ALLOWED_SEVERITY == {"P0", "P1", "P2"}

\* The keys a payload of the model may have; "extra" is a key no schema knows.
PayloadKeys ==
    {"schema_version", "status", "acceptance", "verification", "root_cause",
     "issues", "gate", "next_question", "warnings", "errors", "result", "extra"}

REVIEW_TOP_KEYS ==
    {"schema_version", "status", "acceptance", "verification", "root_cause",
     "issues", "gate", "next_question", "warnings", "errors"}

DELIVERY_TOP_KEYS ==
    {"schema_version", "status", "result", "next_question", "warnings", "errors"}

ResultKeys ==
    {"task_understanding", "implementation_plan", "execution_evidence",
     "risks_and_rollback", "deliverables"}

DELIVERY_RESULT_KEYS ==
    {"task_understanding", "implementation_plan", "execution_evidence",
     "risks_and_rollback"}

\* set(payload.keys()).
Keys(d, names) == {k \in names : d[k].type # "absent"}

\* One error of the validator or of the gate: its code and, for the gate, the
\* command or path it is about.
Error(code, about) == [code |-> code, about |-> about]

SchemaError(code) == Error(code, <<>>)

\* One error per key, as "for key in sorted(...)" appends them.
KeyErrors(keys, code) ==
    [i \in 1..Cardinality(keys) |-> SchemaError(code)]

\* validators.py 297-301.
NextQuestionErrors(next_question) ==
    IF ~IsString(next_question) \/ strip(next_question.s) = <<>>
    THEN <<SchemaError("E_SCHEMA_MISSING_FIELD")>>
    ELSE IF ~Contains(next_question.s, <<"?">>)
    THEN <<SchemaError("E_SCHEMA_INVALID_FORMAT")>>
    ELSE <<>>

\* The loop over verification / execution_evidence items (validators.py
\* 341-365, 531-556): the errors it appends and the entries it keeps.
RECURSIVE NormalizeEvidence(_)
NormalizeEvidence(items) ==
    IF items = <<>> THEN [errors |-> <<>>, normalized |-> <<>>]
    ELSE LET item == Head(items)
             rest == NormalizeEvidence(Tail(items))
         IN  IF item.type # "dict"
             THEN [errors |-> <<SchemaError("E_SCHEMA_INVALID_FORMAT")>> \o rest.errors,
                   normalized |-> rest.normalized]
             ELSE LET unknown == IF item.extra
                                 THEN <<SchemaError("E_SCHEMA_INVALID_FORMAT")>>
                                 ELSE <<>>
                  IN  IF IsString(item.command) /\ IsString(item.result)
                      THEN [errors |-> unknown \o rest.errors,
                            normalized |-> <<[command |-> item.command.s,
                                              result |-> item.result.s]>>
                                           \o rest.normalized]
                      ELSE [errors |-> unknown
                                       \o <<SchemaError("E_SCHEMA_INVALID_FORMAT")>>
                                       \o rest.errors,
                            normalized |-> rest.normalized]

\* The loop over issues (validators.py 379-393); raised when a severity is
\* unhashable.
RECURSIVE NormalizeIssues(_)
NormalizeIssues(items) ==
    IF items = <<>> THEN [raised |-> FALSE, errors |-> <<>>, normalized |-> <<>>]
    ELSE LET item == Head(items)
             rest == NormalizeIssues(Tail(items))
         IN  IF item.type # "dict" THEN rest
             ELSE IF Unhashable(item.severity)
             THEN [raised |-> TRUE, errors |-> <<>>, normalized |-> <<>>]
             ELSE IF NotIn(item.severity, ALLOWED_SEVERITY) \/ ~IsString(item.summary)
             THEN [rest EXCEPT !.errors = <<SchemaError("E_SCHEMA_INVALID_FORMAT")>> \o @]
             ELSE [rest EXCEPT !.normalized = <<item.severity.s>> \o @]

\* What the validator gives: TypeError raised, or ok, errors, parsed_content.
Raised == [raised |-> TRUE, ok |-> FALSE, errors |-> <<>>, parsed_content |-> JAbsent]

Validated(errors, content) ==
    [raised |-> FALSE, ok |-> errors = <<>>, errors |-> errors,
     parsed_content |-> content]

\* A review that is content with one verification entry.
EvidenceMissingBelowOne(normalized_verification) == Len(normalized_verification) < 1

\* validators.py 367: len(normalized_verification) < 2.
EvidenceMissing(normalized_verification) == Len(normalized_verification) < 2

\* validate_json_protocol_content for a review agent (validators.py 303-428).
validate_review(payload) ==
    LET acceptance == payload.acceptance
        status == payload.status
        verification == IF payload.verification.type = "list"
                        THEN payload.verification.items ELSE <<>>
        evidence == NormalizeEvidence(verification)
        issues == IF payload.issues.type = "list" THEN payload.issues.items ELSE <<>>
        normalized_issues == NormalizeIssues(issues)
        gate == payload.gate
        gate_decision == IF gate.type = "dict" THEN gate.decision ELSE JAbsent
        gate_conditions == IF gate.type = "dict" THEN gate.conditions ELSE JAbsent
        errors ==
               NextQuestionErrors(payload.next_question)
            \o KeyErrors(Keys(payload, PayloadKeys) \ REVIEW_TOP_KEYS,
                         "E_SCHEMA_INVALID_FORMAT")
            \o KeyErrors(REVIEW_TOP_KEYS \ Keys(payload, PayloadKeys),
                         "E_SCHEMA_MISSING_FIELD")
            \o (IF payload.schema_version # JStr(REVIEW_SCHEMA_VERSION)
                THEN <<SchemaError("E_SCHEMA_INVALID_ENUM")>> ELSE <<>>)
            \o (IF NotIn(acceptance, ALLOWED_ACCEPTANCE)
                THEN <<SchemaError("E_SCHEMA_INVALID_ENUM")>> ELSE <<>>)
            \o (IF NotIn(status, ALLOWED_STATUS)
                THEN <<SchemaError("E_SCHEMA_INVALID_ENUM")>> ELSE <<>>)
            \o (IF payload.verification.type # "list"
                THEN <<SchemaError("E_SCHEMA_MISSING_FIELD")>> ELSE <<>>)
            \o evidence.errors
            \o (IF EvidenceMissing(evidence.normalized)
                THEN <<SchemaError("E_REVIEW_EVIDENCE_MISSING")>> ELSE <<>>)
            \o (IF payload.issues.type # "list"
                THEN <<SchemaError("E_SCHEMA_MISSING_FIELD")>> ELSE <<>>)
            \o normalized_issues.errors
            \o (IF gate.type # "dict"
                THEN <<SchemaError("E_SCHEMA_MISSING_FIELD")>> ELSE <<>>)
            \o (IF NotIn(gate_decision, ALLOWED_GATE_DECISION)
                THEN <<SchemaError("E_SCHEMA_INVALID_ENUM")>> ELSE <<>>)
            \o (IF gate_conditions.type # "list"
                THEN <<SchemaError("E_SCHEMA_INVALID_FORMAT")>> ELSE <<>>)
            \o (IF /\ acceptance = JStr("pass")
                   /\ \E i \in 1..Len(normalized_issues.normalized) :
                          normalized_issues.normalized[i] \in {"P0", "P1"}
                THEN <<SchemaError("E_REVIEW_GATE_INCONSISTENT")>> ELSE <<>>)
    IN  IF \/ Unhashable(acceptance)
           \/ Unhashable(status)
           \/ normalized_issues.raised
           \/ Unhashable(gate_decision)
        THEN Raised
        ELSE Validated(errors, [verification |-> evidence.normalized])

\* validate_json_protocol_content for the developer agent (validators.py
\* 493-574) with build_delivery_content (models.py 64-85): the result of the
\* parsed content has the four fields of DELIVERY_RESULT_KEYS and no other.
validate_delivery(payload) ==
    LET status == payload.status
        result_dict == payload.result
        execution_evidence == IF result_dict.type = "dict"
                              THEN result_dict.execution_evidence ELSE JAbsent
        evidence == IF execution_evidence.type = "list"
                    THEN NormalizeEvidence(execution_evidence.items)
                    ELSE [errors |-> <<SchemaError("E_SCHEMA_INVALID_FORMAT")>>,
                          normalized |-> <<>>]
        errors ==
               NextQuestionErrors(payload.next_question)
            \o KeyErrors(Keys(payload, PayloadKeys) \ DELIVERY_TOP_KEYS,
                         "E_SCHEMA_INVALID_FORMAT")
            \o KeyErrors(DELIVERY_TOP_KEYS \ Keys(payload, PayloadKeys),
                         "E_SCHEMA_MISSING_FIELD")
            \o (IF payload.schema_version # JStr(DELIVERY_SCHEMA_VERSION)
                THEN <<SchemaError("E_SCHEMA_INVALID_ENUM")>> ELSE <<>>)
            \o (IF NotIn(status, ALLOWED_STATUS)
                THEN <<SchemaError("E_SCHEMA_INVALID_ENUM")>> ELSE <<>>)
            \o (IF result_dict.type # "dict"
                THEN <<SchemaError("E_SCHEMA_MISSING_FIELD")>>
                ELSE    KeyErrors(Keys(result_dict, ResultKeys) \ DELIVERY_RESULT_KEYS,
                                  "E_SCHEMA_INVALID_FORMAT")
                     \o KeyErrors(DELIVERY_RESULT_KEYS \ Keys(result_dict, ResultKeys),
                                  "E_SCHEMA_MISSING_FIELD"))
            \o evidence.errors
    IN  IF Unhashable(status) THEN Raised
        ELSE Validated(errors,
                 [result |-> [execution_evidence |-> evidence.normalized]])

(***************************************************************************)
(* The safety gate: commands, paths and the files of the run.              *)
(***************************************************************************)
SQUOTE == "'"

\* text.lstrip(chars), text.rstrip(chars), text.strip(chars).
RECURSIVE lstrip_chars(_, _)
lstrip_chars(text, chars) ==
    IF text # <<>> /\ Head(text) \in chars THEN lstrip_chars(Tail(text), chars) ELSE text

RECURSIVE rstrip_chars(_, _)
rstrip_chars(text, chars) ==
    IF text # <<>> /\ text[Len(text)] \in chars
    THEN rstrip_chars(SubSeq(text, 1, Len(text) - 1), chars)
    ELSE text

strip_chars(text, chars) == rstrip_chars(lstrip_chars(text, chars), chars)

\* shlex.split(command, posix=True) for commands without backslashes, from
\* index i on: token is the word read so far, in_token whether a word has
\* begun, quote the quote that is open.  ok is FALSE for the ValueError of an
\* unclosed quote.
RECURSIVE shlex_split(_, _, _, _, _)
shlex_split(command, i, token, in_token, quote) ==
    IF i > Len(command)
    THEN IF quote # "" THEN [ok |-> FALSE, tokens |-> <<>>]
         ELSE [ok |-> TRUE, tokens |-> IF in_token THEN <<token>> ELSE <<>>]
    ELSE LET c == command[i] IN
         IF quote # ""
         THEN IF c = quote
              THEN shlex_split(command, i + 1, token, TRUE, "")
              ELSE shlex_split(command, i + 1, Append(token, c), TRUE, quote)
         ELSE IF c \in WHITESPACE
         THEN LET rest == shlex_split(command, i + 1, <<>>, FALSE, "")
              IN  IF in_token
                  THEN [ok |-> rest.ok, tokens |-> <<token>> \o rest.tokens]
                  ELSE rest
         ELSE IF c \in {SQUOTE, QUOTE}
         THEN shlex_split(command, i + 1, token, TRUE, c)
         ELSE shlex_split(command, i + 1, Append(token, c), TRUE, "")

\* command.split().
RECURSIVE split_whitespace(_, _, _)
split_whitespace(command, i, token) ==
    IF i > Len(command) THEN (IF token # <<>> THEN <<token>> ELSE <<>>)
    ELSE IF command[i] \in WHITESPACE
    THEN (IF token # <<>> THEN <<token>> ELSE <<>>) \o split_whitespace(command, i + 1, <<>>)
    ELSE split_whitespace(command, i + 1, Append(token, command[i]))

\* The tokens _extract_absolute_paths_from_command works on (lines 182-185).
Tokens(command) ==
    LET split == shlex_split(command, 1, <<>>, FALSE, "")
    IN  IF split.ok THEN split.tokens ELSE split_whitespace(command, 1, <<>>)

\* raw.split("=", 1)[1] of a raw that holds "=".
AfterEquals(raw) ==
    LET at == CHOOSE i \in 1..Len(raw) : raw[i] = "=" /\ \A j \in 1..(i - 1) : raw[j] # "="
    IN  SubSeq(raw, at + 1, Len(raw))

\* The candidates of one token (lines 189-196).
Candidates(token) ==
    LET raw == strip(token)
    IN  IF raw = <<>> THEN <<>>
        ELSE IF raw[1] = "-" /\ \E i \in 1..Len(raw) : raw[i] = "="
        THEN <<raw, strip(AfterEquals(raw))>>
        ELSE <<raw>>

\* What lines 198-204 make of one candidate: the path it is, <<>> for none.
\* (The code strips backquotes as well; no command of the model has one.)
ExtractedPath(value) ==
    LET stripped == strip_chars(strip(value), {SQUOTE, QUOTE})
        normalized == rstrip_chars(lstrip_chars(stripped, {"("}), {";", ",", "|", "&", ")"})
    IN  IF normalized = <<>> \/ Contains(normalized, <<":", "/", "/">>) THEN <<>>
        ELSE IF normalized[1] = "/" THEN normalized
        ELSE <<>>

RECURSIVE Flatten(_)
Flatten(seqs) == IF seqs = <<>> THEN <<>> ELSE Head(seqs) \o Flatten(Tail(seqs))

\* _extract_absolute_paths_from_command.
extract_absolute_paths_from_command(command) ==
    LET tokens == Tokens(command)
        candidates == Flatten([i \in 1..Len(tokens) |-> Candidates(tokens[i])])
    IN  SelectSeq([i \in 1..Len(candidates) |-> ExtractedPath(candidates[i])],
                  LAMBDA path : path # <<>>)

\* The files of the run.  A path is the sequence of its parts from the root.
\* The workdir /w holds a file a, a directory d and a link l to the
\* directory /o outside it; /wx is a file next to the workdir.
WORKDIR == << <<"w">> >>

Dirs == { <<>>, WORKDIR, << <<"w">>, <<"d">> >>, << <<"o">> >> }

Files == { << <<"w">>, <<"a">> >>, << <<"o">>, <<"f">> >>, << <<"w", "x">> >> }

LinkTarget(path) ==
    IF path = << <<"w">>, <<"l">> >> THEN << <<"o">> >> ELSE path

\* The parts of a path text, "." and ".." among them.
RECURSIVE PathParts(_, _, _)
PathParts(text, i, part) ==
    IF i > Len(text) THEN (IF part # <<>> THEN <<part>> ELSE <<>>)
    ELSE IF text[i] = "/"
    THEN (IF part # <<>> THEN <<part>> ELSE <<>>) \o PathParts(text, i + 1, <<>>)
    ELSE PathParts(text, i + 1, Append(part, text[i]))

\* Path.resolve(): walks the parts from the directory it starts in, follows
\* links, and keeps what does not exist.
RECURSIVE Resolve(_, _)
Resolve(at, parts) ==
    IF parts = <<>> THEN at
    ELSE CASE Head(parts) = <<".">> -> Resolve(at, Tail(parts))
           [] Head(parts) = <<".", ".">> ->
                Resolve(IF at = <<>> THEN at ELSE SubSeq(at, 1, Len(at) - 1), Tail(parts))
           [] OTHER -> Resolve(LinkTarget(Append(at, Head(parts))), Tail(parts))

is_absolute(text) == text # <<>> /\ text[1] = "/"

\* (workdir_path / raw_path).resolve(), which is raw_path.resolve() for an
\* absolute raw_path.
resolve(text) ==
    Resolve(IF is_absolute(text) THEN <<>> ELSE WORKDIR, PathParts(text, 1, <<>>))

\* A containment test on the text of the path in place of its parts.
path_within_by_text(child, parent) ==
    /\ Len(Flatten(parent)) <= Len(Flatten(child))
    /\ SubSeq(Flatten(child), 1, Len(Flatten(parent))) = Flatten(parent)

\* _path_within on resolved paths.
path_within(child, parent) ==
    /\ Len(parent) <= Len(child)
    /\ SubSeq(child, 1, Len(parent)) = parent

\* _collect_commands on the parsed content.
collect_commands(protocol_content, agent_name) ==
    LET entries == IF agent_name = STELLA
                   THEN protocol_content.verification
                   ELSE protocol_content.result.execution_evidence
    IN  [i \in 1..Len(entries) |-> entries[i].command]

\* re.search for a pattern without metacharacters.
search(pattern, cmd) == Contains(cmd, pattern)

AnyMatch(patterns, cmd) == \E i \in 1..Len(patterns) : search(patterns[i], cmd)

\* A policy that asks the allow list first and lets what it allows pass.
command_policy_allow_first(commands, allowlist, denylist) ==
    SelectSeq([i \in 1..Len(commands) |->
                  IF allowlist # <<>> /\ AnyMatch(allowlist, commands[i])
                  THEN Error("", <<>>)
                  ELSE IF AnyMatch(denylist, commands[i])
                  THEN Error("E_SAFETY_COMMAND_DENIED", commands[i])
                  ELSE IF allowlist # <<>>
                  THEN Error("E_SAFETY_COMMAND_NOT_ALLOWED", commands[i])
                  ELSE Error("", <<>>)],
              LAMBDA e : e.code # "")

\* _command_policy_errors.
command_policy_errors(commands, allowlist, denylist) ==
    SelectSeq([i \in 1..Len(commands) |->
                  IF AnyMatch(denylist, commands[i])
                  THEN Error("E_SAFETY_COMMAND_DENIED", commands[i])
                  ELSE IF allowlist # <<>> /\ ~AnyMatch(allowlist, commands[i])
                  THEN Error("E_SAFETY_COMMAND_NOT_ALLOWED", commands[i])
                  ELSE Error("", <<>>)],
              LAMBDA e : e.code # "")

\* The outside_paths of one command (lines 213-220).
outside_paths(cmd) ==
    SelectSeq(extract_absolute_paths_from_command(cmd),
              LAMBDA raw_path : ~path_within(resolve(raw_path), WORKDIR))

\* _command_workdir_errors with the workdir of the run.
command_workdir_errors(commands) ==
    SelectSeq([i \in 1..Len(commands) |->
                  IF outside_paths(commands[i]) # <<>>
                  THEN Error("E_WORKDIR_COMMAND_OUTSIDE", commands[i])
                  ELSE Error("", <<>>)],
              LAMBDA e : e.code # "")

\* The error of one deliverable (lines 245-271); "" for none.  A kind that
\* is missing counts as "file".
DeliverableError(item) ==
    IF item.type # "dict" THEN "E_DELIVERY_INVALID_DELIVERABLES"
    ELSE IF ~IsString(item.path) \/ strip(item.path.s) = <<>>
    THEN "E_DELIVERY_INVALID_DELIVERABLES"
    ELSE LET resolved_path == resolve(item.path.s)
             kind == IF item.kind.type = "absent" THEN "" ELSE item.kind.s
         IN  IF ~path_within(resolved_path, WORKDIR) THEN "E_DELIVERY_OUTSIDE_WORKDIR"
             ELSE IF resolved_path \notin Dirs \cup Files
             THEN "E_DELIVERY_MISSING_DELIVERABLE"
             ELSE IF kind = "dir" /\ resolved_path \notin Dirs THEN "E_DELIVERY_EXPECT_DIR"
             ELSE IF kind \in {"file", ""} /\ resolved_path \notin Files
             THEN "E_DELIVERY_EXPECT_FILE"
             ELSE ""

\* _verify_delivery_deliverables on the parsed content, whose result may
\* lack the key: result.get("deliverables", []).
verify_delivery_deliverables(delivery_content) ==
    LET deliverables == IF "deliverables" \in DOMAIN delivery_content.result
                        THEN delivery_content.result.deliverables
                        ELSE JList(<<>>)
    IN  IF deliverables.type # "list"
        THEN <<Error("E_DELIVERY_INVALID_DELIVERABLES", <<>>)>>
        ELSE SelectSeq([i \in 1..Len(deliverables.items) |->
                           Error(DeliverableError(deliverables.items[i]),
                                 IF /\ deliverables.items[i].type = "dict"
                                    /\ IsString(deliverables.items[i].path)
                                 THEN deliverables.items[i].path.s ELSE <<>>)],
                       LAMBDA e : e.code # "")

(***************************************************************************)
(* The replies and settings one attempt is checked with.                   *)
(***************************************************************************)
CmdLs == <<"l", "s">>
CmdCatInside == <<"c", "a", "t", " ", "/", "w", "/", "a">>
CmdCatOutside == <<"c", "a", "t", " ", "/", "o", "/", "f">>
CmdCatDotDot == <<"c", "a", "t", " ", "/", "w", "/", ".", ".", "/", "o">>
CmdCatLink == <<"c", "a", "t", " ", "/", "w", "/", "l", "/", "f">>
CmdCatSibling == <<"c", "a", "t", " ", "/", "w", "x">>
CmdCatQuoted == <<"c", "a", "t", " ", QUOTE, "/", "o", QUOTE>>
CmdCatUnclosed == <<"c", "a", "t", " ", SQUOTE, "/", "o">>
CmdCatUrlLike == <<"c", "a", "t", " ", "/", "o", ":", "/", "/", "f">>
CmdFlag == <<"l", "s", " ", "-", "-", "f", "=", "/", "o">>
CmdRm == <<"r", "m", " ", "/", "w", "/", "a">>
CmdCatThenRm == <<"c", "a", "t", " ", "/", "w", "/", "a", ";", "r", "m">>

GateCommands ==
    {CmdLs, CmdCatInside, CmdCatOutside, CmdCatDotDot, CmdCatLink, CmdCatSibling,
     CmdCatQuoted, CmdCatUnclosed, CmdCatUrlLike, CmdFlag, CmdRm, CmdCatThenRm}

\* command_allowlist and command_denylist as runtime_config.py 323-328
\* leaves them: lists of patterns none of which is empty.
Policies ==
    { [allowlist |-> <<>>, denylist |-> <<>>],
      [allowlist |-> <<>>, denylist |-> << <<"r", "m">> >>],
      [allowlist |-> << <<"c", "a", "t">> >>, denylist |-> <<>>],
      [allowlist |-> << <<"c", "a", "t">> >>, denylist |-> << <<"r", "m">> >>],
      [allowlist |-> << <<"l", "s">>, <<"c", "a", "t">> >>,
       denylist |-> << <<"x">>, <<"r", "m">> >>] }

NoPolicy == [allowlist |-> <<>>, denylist |-> <<>>]

\* The sequences of at most n elements of a set.
RECURSIVE SeqsUpTo(_, _)
SeqsUpTo(S, n) ==
    IF n = 0 THEN {<<>>}
    ELSE SeqsUpTo(S, n - 1)
         \cup {Append(s, x) : s \in {t \in SeqsUpTo(S, n - 1) : Len(t) = n - 1}, x \in S}

Question == <<"o", "k", "?">>

EvidenceItem(cmd, res, extra) ==
    [type |-> "dict", command |-> cmd, result |-> res, extra |-> extra]

GoodItem(cmd) == EvidenceItem(JStr(cmd), JStr(<<"o", "k">>), FALSE)

\* Verification entries: two that are as the schema wants them, one with a
\* field too many, one without a command, and a string in place of an entry.
VerificationItems ==
    { GoodItem(CmdLs),
      GoodItem(CmdCatInside),
      EvidenceItem(JStr(CmdLs), JStr(<<"o", "k">>), TRUE),
      EvidenceItem(JAbsent, JStr(<<"o", "k">>), FALSE),
      JStr(<<"l", "s">>) }

Issue(severity, summary) == [type |-> "dict", severity |-> severity, summary |-> summary]

\* Issues: a blocking one, a minor one, and a blocking one without summary.
IssueItems ==
    { Issue(JStr("P0"), JStr(<<"b", "a", "d">>)),
      Issue(JStr("P2"), JStr(<<"n", "i", "t">>)),
      Issue(JStr("P0"), JAbsent) }

IssueLists ==
    {JList(items) : items \in SeqsUpTo(IssueItems, MaxItems)}
    \cup {JList(<<Issue(JStr("P1"), JStr(<<"b", "a", "d">>))>>),
          JList(<<JStr(<<"P", "0">>)>>),
          JList(<<Issue(JList(<<>>), JStr(<<"b", "a", "d">>))>>)}

GoodGate ==
    [type |-> "dict", decision |-> JStr("allow"), conditions |-> JList(<<>>)]

\* A review payload with every field the schema wants.
ReviewPayload(acceptance, verification, issues) ==
    [schema_version |-> JStr(REVIEW_SCHEMA_VERSION), status |-> JStr("ok"),
     acceptance |-> acceptance, verification |-> verification,
     root_cause |-> JList(<<>>), issues |-> issues, gate |-> GoodGate,
     next_question |-> JStr(Question), warnings |-> JList(<<>>),
     errors |-> JList(<<>>), result |-> JAbsent, extra |-> JAbsent]

GoodReview(commands) ==
    ReviewPayload(JStr("pass"),
                  JList([i \in 1..Len(commands) |-> GoodItem(commands[i])]),
                  JList(<<>>))

DeliveryResult(execution_evidence, deliverables) ==
    [type |-> "dict", task_understanding |-> JStr(<<"g">>),
     implementation_plan |-> JStr(<<"p">>),
     execution_evidence |-> execution_evidence,
     risks_and_rollback |-> JStr(<<"n">>), deliverables |-> deliverables]

\* A delivery payload with every field the schema wants.
DeliveryPayload(execution_evidence, deliverables) ==
    [schema_version |-> JStr(DELIVERY_SCHEMA_VERSION), status |-> JStr("ok"),
     acceptance |-> JAbsent, verification |-> JAbsent, root_cause |-> JAbsent,
     issues |-> JAbsent, gate |-> JAbsent,
     next_question |-> JStr(Question), warnings |-> JList(<<>>),
     errors |-> JList(<<>>),
     result |-> DeliveryResult(execution_evidence, deliverables),
     extra |-> JAbsent]

GoodDelivery(commands) ==
    DeliveryPayload(JList([i \in 1..Len(commands) |-> GoodItem(commands[i])]), JAbsent)

Deliverable(path, kind) ==
    [type |-> "dict", path |-> JStr(path), kind |-> kind,
     summary |-> JStr(<<"s">>)]

\* Declared deliverables: the file and the directory of the workdir under
\* their kind and under the other, a file that is not there, and paths that
\* leave the workdir outright, by "..", and through the link.
DeliverableItems ==
    { Deliverable(<<"a">>, JStr("file")),
      Deliverable(<<"/", "w", "/", "a">>, JAbsent),
      Deliverable(<<"d">>, JStr("dir")),
      Deliverable(<<"a">>, JStr("dir")),
      Deliverable(<<"d">>, JStr("file")),
      Deliverable(<<"m">>, JStr("file")),
      Deliverable(<<"/", "o", "/", "f">>, JStr("file")),
      Deliverable(<<".", ".", "/", "o", "/", "f">>, JStr("file")),
      Deliverable(<<"l", "/", "f">>, JStr("file")) }

GateAttempt(agent, payload, policy, response_mode, read_only) ==
    [agent |-> agent, payload |-> payload, allowlist |-> policy.allowlist,
     denylist |-> policy.denylist, response_mode |-> response_mode,
     read_only |-> read_only]

Acceptances == {JStr("pass"), JStr("fail"), JStr("bogus"), JAbsent, JList(<<>>)}

\* Reviews that differ in acceptance and verification, without issues and
\* with a blocking one, and reviews with one and with two good verification
\* entries that differ in acceptance and issues.
ReviewAttempts ==
    { GateAttempt(STELLA, ReviewPayload(acceptance, verification, issues),
               NoPolicy, "execute", FALSE) :
        acceptance \in Acceptances,
        verification \in {JAbsent}
            \cup {JList(items) : items \in SeqsUpTo(VerificationItems, MaxItems)},
        issues \in {JList(<<>>), JList(<<Issue(JStr("P0"), JStr(<<"b", "a", "d">>))>>)} }
    \cup
    { GateAttempt(STELLA, ReviewPayload(acceptance, verification, issues),
               NoPolicy, "execute", FALSE) :
        acceptance \in Acceptances,
        verification \in {JList(<<GoodItem(CmdLs)>>), JList(<<GoodItem(CmdLs), GoodItem(CmdLs)>>)},
        issues \in IssueLists }

\* Reviews and deliveries with one other field out of line.
OtherFieldAttempts ==
    { GateAttempt(STELLA, payload, NoPolicy, "execute", FALSE) :
        payload \in
          { [GoodReview(<<CmdLs, CmdLs>>) EXCEPT !.status = JList(<<>>)],
            [GoodReview(<<CmdLs>>) EXCEPT !.status = JList(<<>>)],
            [GoodReview(<<CmdLs, CmdLs>>) EXCEPT !.status = JStr("done")],
            [GoodReview(<<CmdLs, CmdLs>>) EXCEPT !.next_question = JStr(<<"o", "k">>)],
            [GoodReview(<<CmdLs, CmdLs>>) EXCEPT !.next_question = JStr(<<" ">>)],
            [GoodReview(<<CmdLs, CmdLs>>) EXCEPT !.extra = JStr(<<"x">>)],
            [GoodReview(<<CmdLs, CmdLs>>) EXCEPT !.warnings = JAbsent],
            [GoodReview(<<CmdLs, CmdLs>>) EXCEPT !.gate = JAbsent],
            [GoodReview(<<CmdLs, CmdLs>>) EXCEPT !.gate.decision = JList(<<>>)],
            [GoodReview(<<CmdLs, CmdLs>>) EXCEPT !.schema_version = JStr(DELIVERY_SCHEMA_VERSION)] } }
    \cup
    { GateAttempt(LINA_BELL, payload, NoPolicy, "execute", FALSE) :
        payload \in
          { [GoodDelivery(<<CmdLs>>) EXCEPT !.status = JList(<<>>)],
            [GoodDelivery(<<CmdLs>>) EXCEPT !.result = JAbsent],
            [GoodDelivery(<<CmdLs>>) EXCEPT !.result.execution_evidence = JAbsent],
            [GoodDelivery(<<CmdLs>>) EXCEPT !.result.risks_and_rollback = JAbsent],
            [GoodDelivery(<<CmdLs>>) EXCEPT !.extra = JStr(<<"x">>)],
            [GoodDelivery(<<CmdLs>>) EXCEPT !.schema_version = JStr(REVIEW_SCHEMA_VERSION)] } }

\* Deliveries with and without declared deliverables, in and out of execute
\* mode, read-only and not.
DeliveryAttempts ==
    { GateAttempt(LINA_BELL, DeliveryPayload(JList(<<GoodItem(CmdLs)>>), deliverables),
               NoPolicy, response_mode, read_only) :
        deliverables \in {JAbsent}
            \cup {JList(items) : items \in SeqsUpTo(DeliverableItems, 1)},
        response_mode \in {"execute", "text_only"},
        read_only \in BOOLEAN }

\* The commands the policies tell apart.
PolicyCommands == {CmdLs, CmdCatInside, CmdCatOutside, CmdRm, CmdCatThenRm}

\* Well-formed deliveries and reviews with every choice of commands under no
\* policy, and with the commands the policies tell apart under every policy.
CommandAttempts ==
    { GateAttempt(agent,
               IF agent = STELLA THEN GoodReview(commands) ELSE GoodDelivery(commands),
               NoPolicy, "execute", FALSE) :
        agent \in {LINA_BELL, STELLA},
        commands \in SeqsUpTo(GateCommands, MaxItems) }
    \cup
    { GateAttempt(agent,
               IF agent = STELLA THEN GoodReview(commands) ELSE GoodDelivery(commands),
               policy, "execute", FALSE) :
        agent \in {LINA_BELL, STELLA},
        commands \in SeqsUpTo(PolicyCommands, MaxItems),
        policy \in Policies }

GateAttempts ==
    ReviewAttempts \cup OtherFieldAttempts \cup DeliveryAttempts \cup CommandAttempts

NoAttempt == GateAttempt("", JAbsent, NoPolicy, "", FALSE)

VARIABLES
    gate_args,          \* the agent, the payload of its reply, the settings
    gate_pc,            \* position in the checks of the attempt
    gate_is_valid,      \* is_valid
    gate_errors,        \* protocol_errors
    gate_content        \* parsed_content

gate_vars == <<gate_args, gate_pc, gate_is_valid, gate_errors, gate_content>>

\* No attempt is modelled.
GateOff ==
    /\ gate_args = NoAttempt
    /\ gate_pc = "off"
    /\ gate_is_valid = FALSE
    /\ gate_errors = <<>>
    /\ gate_content = JAbsent

\* The components that are functions or stores of their own.
(***************************************************************************)
(* The runtime configuration and its cache (utils/runtime_config.py).      *)
(* A configuration is reduced to two of its keys: defaults.provider, which *)
(* the merge carries through, and defaults.retry_attempts, which the       *)
(* normalization turns into an integer.  Numbers are held in tenths.       *)
(***************************************************************************)
MaxMtime == 1

NoKeys == [provider |-> "None", retry |-> -1]

\* The texts a configuration file may hold: the size of the text and the
\* keys it sets.  Two of the texts have the same size.
ConfigTexts ==
    { [size |-> 0, provider |-> "None", retry |-> NoKeys.retry],
      [size |-> 1, provider |-> "claude-minimax", retry |-> NoKeys.retry],
      [size |-> 1, provider |-> "gemini", retry |-> NoKeys.retry],
      [size |-> 2, provider |-> "None", retry |-> 27] }

NoFile == [exists |-> FALSE, mtime |-> 0, text |-> [size |-> 0, provider |-> "None", retry |-> -1]]

ConfigFile(mtime, text) == [exists |-> TRUE, mtime |-> mtime, text |-> text]

DEFAULT_CONFIG == [provider |-> "codex", retry |-> 10]

\* _deep_merge_dict: the keys of the override win.
_deep_merge_dict(base, override) ==
    [provider |-> IF override.provider # "None" THEN override.provider ELSE base.provider,
     retry |-> IF override.retry # NoKeys.retry THEN override.retry ELSE base.retry]

\* _load_toml_dict: the keys of the file, none for a file that is not there.
_load_toml_dict(config_file) ==
    [provider |-> config_file.text.provider, retry |-> config_file.text.retry]

\* _normalize_config: retry_attempts becomes int(retry_attempts).
_normalize_config(config) ==
    LET normalized == _deep_merge_dict(DEFAULT_CONFIG, config)
    IN  [provider |-> normalized.provider, retry_attempts |-> normalized.retry \div 10]

\* _file_signature: (exists, mtime_ns, size).
_file_signature(path) ==
    IF path.exists THEN <<TRUE, path.mtime, path.text.size>> ELSE <<FALSE, 0, 0>>

\* A record handed over as the object itself.
same_object(obj) == [alias |-> TRUE, value |-> obj]

\* copy.deepcopy: a new record with the same value.
deepcopy(obj) == [alias |-> FALSE, value |-> obj]

NoConfig == [provider |-> "None", retry_attempts |-> 0]

NoEntry == [filled |-> FALSE, sig |-> <<>>, config |-> NoConfig]

VARIABLES
    config_pc,          \* "off", "idle", or "loaded" right after a load
    config_files,       \* the config file and its .local override
    fs_clock,           \* the clock the filesystem stamps mtime with
    config_cache,       \* the entry of _CONFIG_CACHE for the path
    held,               \* the record the caller holds from its last load
    loaded,             \* the value load_runtime_config returned last
    cache_hit,          \* the last load returned the cached record
    filled_from,        \* the files as they were when the cache was filled
    mutated,            \* the caller changed a record it was given
    reverted            \* a rewrite gave a file the signature the cache holds

config_vars ==
    <<config_pc, config_files, fs_clock, config_cache, held, loaded, cache_hit,
      filled_from, mutated, reverted>>

NoFiles == [base |-> NoFile, local |-> NoFile]

\* No configuration is modelled.
ConfigOff ==
    /\ config_pc = "off"
    /\ config_files = NoFiles
    /\ fs_clock = 0
    /\ config_cache = NoEntry
    /\ held = deepcopy(NoConfig)
    /\ loaded = NoConfig
    /\ cache_hit = FALSE
    /\ filled_from = NoFiles
    /\ mutated = FALSE
    /\ reverted = FALSE

(***************************************************************************)
(* The session store (utils/session_store.py).  The store file is absent,  *)
(* unreadable as a JSON object, or holds for each provider an entry: none, *)
(* something that is no object, or an object with sessionId and updatedAt. *)
(***************************************************************************)
MaxStamp == 1

StoreProviders == {"codex", "claude-minimax"}

\* Session ids, blank ones among them.
StoredIds == { <<"a">>, <<" ", "a">>, <<>>, <<" ">> }

Missing == [type |-> "absent"]

StoreEntry(session_id, updated_at) ==
    [type |-> "dict", sessionId |-> session_id, updatedAt |-> updated_at]

EmptyStore == [p \in StoreProviders |-> Missing]

FileAbsent == [kind |-> "absent", store |-> EmptyStore]

\* A file that is no JSON, or JSON that is no object.
FileUnreadable == [kind |-> "unreadable", store |-> EmptyStore]

FileOf(store) == [kind |-> "dict", store |-> store]

\* load_session_store: the object of the file, {} for any other file.
load_session_store(file) == IF file.kind = "dict" THEN file.store ELSE EmptyStore

\* save_session_store: the file is replaced by the dump of the store.
save_session_store(store) == FileOf(store)

\* get_session_id on a loaded store: None is <<"None">>, which is no
\* session id of the model.
NoSession == <<"None">>

get_session_id_of(store, provider) ==
    LET value == store[provider] IN
    IF value.type = "dict" /\ strip(value.sessionId) # <<>>
    THEN value.sessionId
    ELSE NoSession

\* A store that holds the one entry alone.
store_only(store, provider, entry) ==
    [q \in StoreProviders |-> IF q = provider THEN entry ELSE Missing]

\* store[provider] = entry.
store_assign(store, provider, entry) == [store EXCEPT ![provider] = entry]

NoOp == [op |-> "none", provider |-> "", session_id |-> <<>>]

VARIABLES
    session_pc,         \* "off", "idle", or "got" right after a get
    SESSION_FILE,       \* the store file
    session_now,        \* the clock updatedAt is taken from
    session_op,         \* the last set or clear
    session_before,     \* the store as it loaded before that operation
    session_got         \* the provider and the result of the last get

session_vars ==
    <<session_pc, SESSION_FILE, session_now, session_op, session_before, session_got>>

NoGot == [provider |-> "", value |-> NoSession]

\* No session store is modelled.
SessionOff ==
    /\ session_pc = "off"
    /\ SESSION_FILE = FileAbsent
    /\ session_now = 0
    /\ session_op = NoOp
    /\ session_before = EmptyStore
    /\ session_got = NoGot

(***************************************************************************)
(* The audit logger (utils/audit_log.py) through one run: the log          *)
(* directory is made when the logger is constructed, events are appended   *)
(* to the log file, and finalize appends run.finalized and writes the      *)
(* summary file.  A fault names what the filesystem refuses in the run.    *)
(***************************************************************************)
MaxTurns == 2

\* What fails: nothing, making the log directory, every opening of a file
\* in it, some appends to the log file, the writing of the summary file.
AuditFaults == {"none", "mkdir", "open", "append", "summary"}

\* The runs: logging enabled or not, the rounds, and the turn at which
\* invoke raises (0 for none).
AuditPlans ==
    { [enabled |-> enabled, rounds |-> rounds, fail_at |-> fail_at] :
        enabled \in BOOLEAN, rounds \in 1..MaxTurns, fail_at \in 0..MaxTurns }

NoPlan == [enabled |-> FALSE, rounds |-> 0, fail_at |-> 0]

NoSummaryFile == [state |-> "absent", run_id |-> "", status |-> "", turns_completed |-> 0]

VARIABLES
    audit_pc,           \* position in the run
    audit_fault,        \* what the filesystem refuses
    audit_plan,         \* the run
    audit_turns,        \* len(transcript)
    audit_error,        \* run_error is set
    audit_outcome,      \* how run_two_agent_dialogue ended
    audit_lines,        \* the events in the log file
    summary_on_disk     \* the summary file as a reader finds it

audit_vars ==
    <<audit_pc, audit_fault, audit_plan, audit_turns, audit_error, audit_outcome,
      audit_lines, summary_on_disk>>

\* No logger is modelled.
AuditOff ==
    /\ audit_pc = "off"
    /\ audit_fault = "none"
    /\ audit_plan = NoPlan
    /\ audit_turns = 0
    /\ audit_error = FALSE
    /\ audit_outcome = "None"
    /\ audit_lines = <<>>
    /\ summary_on_disk = NoSummaryFile

(***************************************************************************)
(* orchestrator.py, _validate_agent_output for a reply that is text, with  *)
(* _adapt_review_plain_text: a review written in sections.  A Chinese word *)
(* is one letter of a text, written in pinyin; the full-width question     *)
(* mark is written "?".                                                    *)
(***************************************************************************)
\* The most lines a reply of the model has.
MaxLines == 3

\* The section names 验收结论, 核验清单, 根因链, 问题清单, 回归门禁.
CONCLUSION == "yanshoujielun"
CHECKLIST == "heyanqingdan"
ROOT_CAUSE == "genyinlian"
ISSUE_LIST == "wentiqingdan"
REGRESSION_GATE == "huiguimenjin"

SECTION_NAMES == {CONCLUSION, CHECKLIST, ROOT_CAUSE, ISSUE_LIST, REGRESSION_GATE}

\* text.splitlines() for a text whose only line breaks are \n.
RECURSIVE splitlines(_)
SplitAt(text, idx) ==
    IF idx = 0 THEN <<text>>
    ELSE <<SubSeq(text, 1, idx - 1)>> \o splitlines(SubSeq(text, idx + 1, Len(text)))

splitlines(text) == IF text = <<>> THEN <<>> ELSE SplitAt(text, find_newline(text))

\* "\n".join(lines).
RECURSIVE JoinNewline(_)
JoinNewline(lines) ==
    IF lines = <<>> THEN <<>>
    ELSE IF Len(lines) = 1 THEN lines[1]
    ELSE lines[1] \o <<NL>> \o JoinNewline(Tail(lines))

\* The number of "#" a line begins with.
RECURSIVE LeadingHashes(_)
LeadingHashes(line) ==
    IF line # <<>> /\ Head(line) = "#" THEN 1 + LeadingHashes(Tail(line)) ELSE 0

\* What "(?:#{1,6}\s*)?" leaves of a stripped line.
AfterHashes(line, hashes) ==
    IF hashes \in 1..6 THEN lstrip(SubSeq(line, hashes + 1, Len(line))) ELSE line

\* "\[(name)\]\s*$" on what is left: the name, or None.
BracketedName(body) ==
    IF Len(body) = 3 /\ body[1] = "[" /\ body[2] \in SECTION_NAMES /\ body[3] = "]"
    THEN body[2]
    ELSE None

\* section_pattern.match(line) for a stripped line: group 1, or None.
section_match(line) == BracketedName(AfterHashes(line, LeadingHashes(line)))

\* The loop of _adapt_review_plain_text over the lines from index i on.
RECURSIVE SectionsFrom(_, _, _, _)
SectionsWith(lines, i, current_section, sections, line, matched) ==
    SectionsFrom(lines, i + 1,
                 IF matched # None THEN matched ELSE current_section,
                 IF line # <<>> /\ matched = None /\ current_section # None
                 THEN [sections EXCEPT ![current_section] = Append(@, line)]
                 ELSE sections)

SectionsAfter(lines, i, current_section, sections, line) ==
    SectionsWith(lines, i, current_section, sections, line, section_match(line))

SectionsFrom(lines, i, current_section, sections) ==
    IF i > Len(lines) THEN sections
    ELSE SectionsAfter(lines, i, current_section, sections, strip(lines[i]))

\* re.sub(r"^\s*[-*]\s*", "", cleaned) for a stripped line.
StripBullet(cleaned) ==
    IF cleaned # <<>> /\ Head(cleaned) \in {"-", "*"} THEN lstrip(Tail(cleaned))
    ELSE cleaned

\* re.sub(r"^\s*\d+[.)]\s*", "", cleaned), given the index after the digits.
StripNumberAt(cleaned, end) ==
    IF end > 1 /\ end <= Len(cleaned) /\ cleaned[end] \in {".", ")"}
    THEN lstrip(SubSeq(cleaned, end + 1, Len(cleaned)))
    ELSE cleaned

StripNumber(cleaned) == StripNumberAt(cleaned, EndOfDigits(cleaned, 1))

\* _clean_markdown_line.
_clean_markdown_line(line) == strip(StripNumber(StripBullet(strip(line))))

\* [_clean_markdown_line(line) for line in lines if _clean_markdown_line(line)].
CleanLines(lines) ==
    SelectSeq([i \in 1..Len(lines) |-> _clean_markdown_line(lines[i])],
              LAMBDA cleaned : cleaned # <<>>)

\* items[:n].
Take(items, n) == SubSeq(items, 1, IF Len(items) < n THEN Len(items) ELSE n)

\* The tokens 不通过, fail, block and 有条件, 建议改进, conditional.
FAIL_TOKENS ==
    { <<"bu", "tongguo">>, <<"f", "a", "i", "l">>, <<"b", "l", "o", "c", "k">> }

CONDITIONAL_TOKENS ==
    { <<"youtiaojian">>, <<"jianyigaijin">>,
      <<"c", "o", "n", "d", "i", "t", "i", "o", "n", "a", "l">> }

\* acceptance, status and gate_decision for the text of the conclusion.
Verdict(acceptance_text) ==
    IF \E token \in FAIL_TOKENS : Contains(acceptance_text, token)
    THEN [acceptance |-> "fail", status |-> "failed", gate_decision |-> "block"]
    ELSE IF \E token \in CONDITIONAL_TOKENS : Contains(acceptance_text, token)
    THEN [acceptance |-> "conditional", status |-> "partial",
          gate_decision |-> "conditional"]
    ELSE [acceptance |-> "pass", status |-> "ok", gate_decision |-> "allow"]

PLACEHOLDER_RESULT == <<"insufficient explicit evidence in plain-text output">>

\* {"command": f"static_review_evidence_{idx}", "result": res}.
StaticEvidence(idx, res) ==
    EvidenceItem(JStr(<<"static_review_evidence_", IF idx = 1 THEN "1" ELSE "2">>),
                 JStr(res), FALSE)

\* A verification list that is not filled up.
VerificationUnpadded(verification_lines) ==
    [idx \in 1..Len(Take(verification_lines, 2)) |->
        StaticEvidence(idx, verification_lines[idx])]

\* The verification list: an entry for each of the first two lines, filled up
\* to two entries.
Verification(verification_lines) ==
    [idx \in 1..2 |->
        StaticEvidence(idx, IF idx <= Len(verification_lines)
                            THEN verification_lines[idx]
                            ELSE PLACEHOLDER_RESULT)]

\* \w of a regular expression, over the letters of the model.
WordChar(c) ==
    c \notin {" ", NL, CR, "-", "*", ":", "|", ".", ")", "(", "[", "]", "#",
              "{", "}", QUOTE}

\* r"\b(P0|P1|P2)\b" with re.IGNORECASE matches at index i.
SeverityAt(line, i) ==
    /\ i + 1 <= Len(line)
    /\ line[i] \in {"P", "p"}
    /\ line[i + 1] \in {"0", "1", "2"}
    /\ i = 1 \/ ~WordChar(line[i - 1])
    /\ i + 1 = Len(line) \/ ~WordChar(line[i + 2])

SeverityNamed(digit) ==
    CASE digit = "0" -> "P0" [] digit = "1" -> "P1" [] OTHER -> "P2"

\* The severity of an issue line: the first match in upper case, else P2.
SeverityOf(line) ==
    IF \E i \in 1..Len(line) : SeverityAt(line, i)
    THEN SeverityNamed(line[1 + CHOOSE i \in 1..Len(line) :
                                   /\ SeverityAt(line, i)
                                   /\ \A j \in 1..(i - 1) : ~SeverityAt(line, j)])
    ELSE "P2"

\* The index of the first "|" of a text, 0 when there is none.
find_bar(text) ==
    IF \E i \in 1..Len(text) : text[i] = "|"
    THEN CHOOSE i \in 1..Len(text) : text[i] = "|" /\ \A j \in 1..(i - 1) : text[j] # "|"
    ELSE 0

\* [item.strip() for item in text.split("|")].
RECURSIVE split_bar(_)
SplitBarAt(text, idx) ==
    IF idx = 0 THEN <<strip(text)>>
    ELSE <<strip(SubSeq(text, 1, idx - 1))>> \o split_bar(SubSeq(text, idx + 1, Len(text)))

split_bar(text) == SplitBarAt(text, find_bar(text))

\* parts[2] or line, for the parts of a table row.
ThirdPart(line, parts) ==
    IF Len(parts) >= 3 /\ parts[3] # <<>> THEN parts[3] ELSE line

\* The summary of an issue line: the third cell of a table row.
IssueSummary(line) ==
    IF line # <<>> /\ Head(line) = "|"
    THEN ThirdPart(line, split_bar(strip_chars(line, {"|"})))
    ELSE line

\* The issues list: an issue for each of the first eight lines.
Issues(issue_lines) ==
    [idx \in 1..Len(Take(issue_lines, 8)) |->
        Issue(JStr(SeverityOf(issue_lines[idx])), JStr(IssueSummary(issue_lines[idx])))]

JStrings(lines) == JList([i \in 1..Len(lines) |-> JStr(lines[i])])

\* AgentProfile.display_name: 达菲, 玲娜贝儿, 星黛露.
display_agent_name(name) ==
    CASE name = DUFFY -> "dafei"
      [] name = LINA_BELL -> "linnabeier"
      [] OTHER -> "xingdailu"

ADAPTED_WARNING == <<"auto_adapted_from_plain_text_review">>

\* The payload _adapt_review_plain_text returns for the sections it found.
AdaptedPayload(sections, verdict, peer) ==
    [schema_version |-> JStr(REVIEW_SCHEMA_VERSION),
     status |-> JStr(verdict.status),
     acceptance |-> JStr(verdict.acceptance),
     verification |-> JList(Verification(CleanLines(sections[CHECKLIST]))),
     root_cause |-> JStrings(Take(CleanLines(sections[ROOT_CAUSE]), 6)),
     issues |-> JList(Issues(CleanLines(sections[ISSUE_LIST]))),
     gate |-> [type |-> "dict", decision |-> JStr(verdict.gate_decision),
               conditions |-> JStrings(Take(CleanLines(sections[REGRESSION_GATE]), 8))],
     next_question |-> JStr(<<display_agent_name(peer), ",", "shifouxuyao", "?">>),
     warnings |-> JStrings(<<ADAPTED_WARNING>>),
     errors |-> JList(<<>>), result |-> JAbsent, extra |-> JAbsent]

\* None, where a payload is expected.
NoPayload == [type |-> "none"]

AdaptSections(sections, peer) ==
    IF \A name \in SECTION_NAMES : sections[name] = <<>> THEN NoPayload
    ELSE AdaptedPayload(sections, Verdict(LowerText(JoinLines(sections[CONCLUSION]))),
                        peer)

\* _adapt_review_plain_text.
_adapt_review_plain_text(text, peer) ==
    AdaptSections(SectionsFrom(splitlines(text), 1, None,
                               [name \in SECTION_NAMES |-> <<>>]),
                  peer)

\* The payload of a JSON object of the model, given its dump: the keys such
\* an object can have are keys no schema knows.
ObjectPayload(dump) ==
    [key \in PayloadKeys |->
        IF key = "extra" /\ Len(dump) > 2 THEN JStr(<<>>) ELSE JAbsent]

\* decoder.raw_decode(text[idx:]) gives a dict.
ObjectAt(text, idx) ==
    text[idx] = "{" /\ raw_decode(text, idx).end # 0

\* _extract_first_json_object.
_extract_first_json_object(text) ==
    IF \E idx \in 1..Len(text) : ObjectAt(text, idx)
    THEN ObjectPayload(raw_decode(text, CHOOSE idx \in 1..Len(text) :
                                            /\ ObjectAt(text, idx)
                                            /\ \A j \in 1..(idx - 1) : ~ObjectAt(text, j)).dump)
    ELSE NoPayload

\* The except branch of json.loads(raw) in _validate_agent_output.
NotJsonPayload(agent_name, raw, peer, extracted) ==
    IF extracted = NoPayload /\ agent_name = STELLA
    THEN _adapt_review_plain_text(raw, peer)
    ELSE extracted

\* What json.loads(raw) and its except branch make of the reply, given the
\* values raw decodes to: a payload, None, or a value that is not a dict.
NotDict == [type |-> "not_dict"]

LoadedPayload(agent_name, raw, peer, decoded) ==
    IF decoded.ok /\ Len(decoded.values) = 1
    THEN IF decoded.values[1][1] = "{" THEN ObjectPayload(decoded.values[1])
         ELSE NotDict
    ELSE NotJsonPayload(agent_name, raw, peer, _extract_first_json_object(raw))

\* validate_json_protocol_content for the planner (validators.py 429-490),
\* for payloads whose result, when it is a dict, has the keys of a delivery.
validate_plan(payload) ==
    LET status == payload.status
        result_dict == payload.result
        errors ==
               NextQuestionErrors(payload.next_question)
            \o KeyErrors(Keys(payload, PayloadKeys) \ DELIVERY_TOP_KEYS,
                         "E_SCHEMA_INVALID_FORMAT")
            \o KeyErrors(DELIVERY_TOP_KEYS \ Keys(payload, PayloadKeys),
                         "E_SCHEMA_MISSING_FIELD")
            \o (IF payload.schema_version # JStr(PLAN_SCHEMA_VERSION)
                THEN <<SchemaError("E_SCHEMA_INVALID_ENUM")>> ELSE <<>>)
            \o (IF NotIn(status, ALLOWED_STATUS)
                THEN <<SchemaError("E_SCHEMA_INVALID_ENUM")>> ELSE <<>>)
            \o (IF result_dict.type # "dict"
                THEN <<SchemaError("E_SCHEMA_MISSING_FIELD")>>
                ELSE    KeyErrors(Keys(result_dict, ResultKeys), "E_SCHEMA_INVALID_FORMAT")
                     \o KeyErrors({"requirement_breakdown", "implementation_scope",
                                   "acceptance_criteria", "handoff_notes"},
                                  "E_SCHEMA_MISSING_FIELD"))
            \o <<SchemaError("E_SCHEMA_INVALID_FORMAT"),
                 SchemaError("E_SCHEMA_INVALID_FORMAT")>>
    IN  IF Unhashable(status) THEN Raised
        ELSE Validated(errors, [result |-> [execution_evidence |-> <<>>]])

\* validate_json_protocol_content, by agent.
validate_for(agent_name, payload) ==
    IF agent_name = STELLA THEN validate_review(payload)
    ELSE IF agent_name = DUFFY THEN validate_plan(payload)
    ELSE validate_delivery(payload)

Rejected == Validated(<<SchemaError("E_SCHEMA_INVALID_FORMAT")>>, JAbsent)

VARIABLES
    adapt_args,         \* current_agent, peer_agent and the lines of output
    adapt_pc,
    adapt_payload,      \* payload, once json.loads or its fallbacks gave one
    adapt_result        \* what _validate_agent_output returns

adapt_vars == <<adapt_args, adapt_pc, adapt_payload, adapt_result>>

NoAdaptArgs == [current_agent |-> DUFFY, peer_agent |-> LINA_BELL, lines |-> <<>>]

\* No call of _validate_agent_output with a text is modelled.
AdaptOff ==
    /\ adapt_args = NoAdaptArgs
    /\ adapt_pc = "off"
    /\ adapt_payload = NoPayload
    /\ adapt_result = Rejected

\* The components added last.
(***************************************************************************)
(* friends_bar/orchestrator.py: _truncate_text and the cap of the history  *)
(* text in _format_history.                                                *)
(***************************************************************************)
\* The longest text that is truncated, and the largest limit.
MaxText == 4
MaxChars == 4

\* The texts of up to n characters, made of a letter and a blank.
RECURSIVE TextsUpTo(_)
TextsUpTo(n) ==
    IF n = 0 THEN {<<>>}
    ELSE TextsUpTo(n - 1) \cup
         { Append(text, c) : text \in { t \in TextsUpTo(n - 1) : Len(t) = n - 1 },
                             c \in {"a", " "} }

Ellipsis == <<".", ".", ".">>

\* text[:stop] of Python: a negative stop counts from the end.
slice_to(text, stop) ==
    IF stop >= 0
    THEN SubSeq(text, 1, IF stop < Len(text) THEN stop ELSE Len(text))
    ELSE SubSeq(text, 1, IF Len(text) + stop > 0 THEN Len(text) + stop ELSE 0)

\* _truncate_text (lines 501-508).
_truncate_text(text, max_chars) ==
    IF max_chars <= 0 THEN <<>>
    ELSE IF Len(strip(text)) <= max_chars THEN strip(text)
    ELSE slice_to(strip(text), max_chars - 3) \o Ellipsis

\* _format_history, lines 787-790: the cap of the joined history lines.
cap_history(history_text, max_chars) ==
    IF max_chars > 0 /\ Len(history_text) > max_chars
    THEN slice_to(history_text, max_chars - 3) \o Ellipsis
    ELSE history_text

VARIABLES
    truncate_args,      \* the text and the limit
    truncate_pc,
    truncated           \* what was made of the text

truncate_vars == <<truncate_args, truncate_pc, truncated>>

\* No truncation is modelled.
TruncateOff ==
    /\ truncate_args = [text |-> <<>>, max_chars |-> 0]
    /\ truncate_pc = "off"
    /\ truncated = <<>>

last_vars == <<adapt_vars, truncate_vars>>

LastOff == AdaptOff /\ TruncateOff

\* The components that follow the checks of one attempt.
late_vars == <<config_vars, session_vars, audit_vars, last_vars>>

LateOff == ConfigOff /\ SessionOff /\ AuditOff /\ LastOff

rest_vars == <<collapse_vars, gate_vars, late_vars>>

RestOff == CollapseOff /\ GateOff /\ LateOff

\* The variables of the components an orchestrator step leaves alone.
other_vars == <<invoke_vars, runner_vars, adapter_vars, rest_vars>>

(***************************************************************************)
(* Arguments and start of a run.                                           *)
(***************************************************************************)
\* DEFAULT_CONFIG of runtime_config.py: the developer agent runs in execute
\* mode, nothing is read-only, the allow list is empty, logging is on.
DefaultSettings ==
    [dry_run |-> FALSE, log_enabled |-> TRUE, response_mode |-> "execute",
     read_only |-> FALSE, allowlist_nonempty |-> FALSE]

\* The settings the model runs with: the default, and each setting changed
\* on its own.
Settings ==
    {DefaultSettings,
     [DefaultSettings EXCEPT !.dry_run = TRUE],
     [DefaultSettings EXCEPT !.log_enabled = FALSE],
     [DefaultSettings EXCEPT !.response_mode = "text_only"],
     [DefaultSettings EXCEPT !.read_only = TRUE],
     [DefaultSettings EXCEPT !.allowlist_nonempty = TRUE]}

Configs ==
    {[rounds |-> r, start_agent |-> n, dry_run |-> s.dry_run,
      log_enabled |-> s.log_enabled, response_mode |-> s.response_mode,
      read_only |-> s.read_only, allowlist_nonempty |-> s.allowlist_nonempty] :
        r \in 0..MaxRounds, n \in StartNames, s \in Settings}

Init ==
    /\ cfg \in Configs
    /\ pc = "start"
    /\ turn = 0
    /\ current_agent = ""
    /\ transcript = <<>>
    /\ run_error = NoError
    /\ dry_run_payload = NoPrompt
    /\ dry_run_triggered = FALSE
    /\ attempt_count = 0
    /\ adjusted_prompt = NoPrompt
    /\ extra_instruction = <<>>
    /\ result = NoReply
    /\ is_valid = FALSE
    /\ protocol_errors = <<>>
    /\ structured_content = NoReply
    /\ log = <<>>
    /\ summary_file = NoSummary
    /\ finalize_calls = <<>>
    /\ invoke_calls = [t \in 1..MaxRounds |-> 0]
    /\ replies_valid = TRUE
    /\ InvokeOff
    /\ RunnerOff
    /\ AdapterOff
    /\ RestOff

(***************************************************************************)
(* Audit logger.                                                           *)
(*                                                                         *)
(* The model keeps the run-, turn- and attempt-level events.  It leaves    *)
(* out prompt.dump, workdir.verify, delivery.verify and the provider.*     *)
(* events of the event hook.                                               *)
(***************************************************************************)
Event(e, t, a, info) == [event |-> e, turn |-> t, attempt |-> a, info |-> info]

\* AuditLogger.log for a run of events: nothing is written when the logger is
\* disabled.
Logged(events) == IF cfg.log_enabled THEN log \o events ELSE log

ValidText(b) == IF b THEN "valid" ELSE "invalid"

(***************************************************************************)
(* run_two_agent_dialogue, step by step.                                   *)
(***************************************************************************)
\* Lines 1107-1138: the arguments are rejected before anything is logged.
RejectArguments ==
    /\ pc = "start"
    /\ cfg.rounds < 1 \/ normalize_agent_name(cfg.start_agent) = ""
    /\ pc' = "rejected"
    /\ UNCHANGED <<cfg, turn, current_agent, transcript, run_error, dry_run_payload,
                   dry_run_triggered, attempt_count, adjusted_prompt,
                   extra_instruction, result, is_valid, protocol_errors,
                   structured_content, log, summary_file, finalize_calls,
                   invoke_calls, replies_valid>>
    /\ UNCHANGED other_vars

\* Lines 1138-1180: run.started and the task envelope.
StartRun ==
    /\ pc = "start"
    /\ cfg.rounds >= 1
    /\ normalize_agent_name(cfg.start_agent) # ""
    /\ current_agent' = normalize_agent_name(cfg.start_agent)
    /\ log' = Logged(<<Event("run.started", 0, 0, ""),
                       Event("protocol.task.envelope", 0, 0, "")>>)
    /\ pc' = "turn"
    /\ UNCHANGED <<cfg, turn, transcript, run_error, dry_run_payload,
                   dry_run_triggered, attempt_count, adjusted_prompt,
                   extra_instruction, result, is_valid, protocol_errors,
                   structured_content, summary_file, finalize_calls, invoke_calls,
                   replies_valid>>
    /\ UNCHANGED other_vars

\* Line 1183: for turn in range(1, resolved_rounds + 1).
TurnLoopRuns == turn < cfg.rounds

\* Lines 1183-1231: head of one iteration of the turn loop.  adjusted_prompt
\* and is_valid are locals of the attempt loop that are assigned before they
\* are read; the model clears them where the source leaves them stale.
StartTurn ==
    /\ pc = "turn"
    /\ TurnLoopRuns
    /\ turn' = turn + 1
    /\ log' = Logged(<<Event("round.started", turn + 1, 0, ""),
                       Event("round.start", turn + 1, 0, ""),
                       Event("turn.started", turn + 1, 0, "")>>)
    /\ result' = NoReply
    /\ protocol_errors' = <<>>
    /\ extra_instruction' = <<>>
    /\ attempt_count' = 0
    /\ structured_content' = NoReply
    /\ adjusted_prompt' = NoPrompt
    /\ is_valid' = FALSE
    /\ pc' = "attempt"
    /\ UNCHANGED <<cfg, current_agent, transcript, run_error, dry_run_payload,
                   dry_run_triggered, summary_file, finalize_calls, invoke_calls,
                   replies_valid>>
    /\ UNCHANGED other_vars

\* The turn loop has run resolved_rounds times.
TurnsDone ==
    /\ pc = "turn"
    /\ ~TurnLoopRuns
    /\ pc' = "finally"
    /\ UNCHANGED <<cfg, turn, current_agent, transcript, run_error, dry_run_payload,
                   dry_run_triggered, attempt_count, adjusted_prompt,
                   extra_instruction, result, is_valid, protocol_errors,
                   structured_content, log, summary_file, finalize_calls,
                   invoke_calls, replies_valid>>
    /\ UNCHANGED other_vars

\* The attempt loop with one iteration too many.
AttemptLoopRunsOnceMore == attempt_count < MAX_PROTOCOL_RETRY + 2

\* Line 1233: for attempt_idx in range(MAX_PROTOCOL_RETRY + 1).
AttemptLoopRuns == attempt_count < MAX_PROTOCOL_RETRY + 1

\* Lines 1241-1272: the prompt of the attempt that starts now, and its events.
TurnPrompt ==
    [turn |-> turn, attempt |-> attempt_count + 1, agent |-> current_agent,
     extra_instruction |-> extra_instruction]

PromptEvents ==
    <<Event("prompt.stats", turn, attempt_count + 1, ""),
      Event("prompt.bytes", turn, attempt_count + 1, "")>>

\* DryRunAttempt without dry_run_triggered, so that only the attempt loop is
\* left.
DryRunAttemptLeavesInnerLoopOnly ==
    /\ pc = "attempt"
    /\ AttemptLoopRuns
    /\ cfg.dry_run
    /\ attempt_count' = attempt_count + 1
    /\ adjusted_prompt' = TurnPrompt
    /\ log' = Logged(PromptEvents \o <<Event("run.dry_run", turn, 0, "")>>)
    /\ dry_run_payload' = TurnPrompt
    /\ pc' = "after_attempts"
    /\ UNCHANGED <<cfg, turn, current_agent, transcript, run_error,
                   dry_run_triggered, extra_instruction, result, is_valid,
                   protocol_errors, structured_content, summary_file,
                   finalize_calls, invoke_calls, replies_valid>>
    /\ UNCHANGED other_vars

\* Lines 1233-1314 and 1542-1543: an attempt of a dry run builds the prompt
\* and leaves both loops.
DryRunAttempt ==
    /\ pc = "attempt"
    /\ AttemptLoopRuns
    /\ cfg.dry_run
    /\ attempt_count' = attempt_count + 1
    /\ adjusted_prompt' = TurnPrompt
    /\ log' = Logged(PromptEvents \o <<Event("run.dry_run", turn, 0, "")>>)
    /\ dry_run_payload' = TurnPrompt
    /\ dry_run_triggered' = TRUE
    /\ pc' = "finally"
    /\ UNCHANGED <<cfg, turn, current_agent, transcript, run_error,
                   extra_instruction, result, is_valid, protocol_errors,
                   structured_content, summary_file, finalize_calls, invoke_calls,
                   replies_valid>>
    /\ UNCHANGED other_vars

\* The record the except clause of lines 1594-1602 builds.
RunError(error_type, errors) ==
    [error_type |-> error_type, errors |-> errors, turns_completed |-> Len(transcript)]

\* AttemptRaises with the error logged but not raised again.
AttemptRaisesSwallowed ==
    /\ pc = "attempt"
    /\ AttemptLoopRuns
    /\ ~cfg.dry_run
    /\ attempt_count' = attempt_count + 1
    /\ adjusted_prompt' = TurnPrompt
    /\ invoke_calls' = [invoke_calls EXCEPT ![turn] = @ + 1]
    /\ replies_valid' = FALSE
    /\ log' = Logged(PromptEvents \o
                     <<Event("turn.attempt.started", turn, attempt_count + 1, ""),
                       Event("turn.attempt.failed", turn, attempt_count + 1, "")>>)
    /\ pc' = "attempt"
    /\ UNCHANGED <<cfg, turn, current_agent, transcript, run_error, dry_run_payload,
                   dry_run_triggered, extra_instruction, result, is_valid,
                   protocol_errors, structured_content, summary_file,
                   finalize_calls>>
    /\ UNCHANGED other_vars

\* Lines 1233-1402 and 1594-1602: an attempt in which invoke raises; the
\* error is logged and propagates through the outer except clause.
AttemptRaises ==
    /\ pc = "attempt"
    /\ AttemptLoopRuns
    /\ ~cfg.dry_run
    /\ attempt_count' = attempt_count + 1
    /\ adjusted_prompt' = TurnPrompt
    /\ invoke_calls' = [invoke_calls EXCEPT ![turn] = @ + 1]
    /\ replies_valid' = FALSE
    /\ run_error' = RunError("ProcessExecutionError", <<>>)
    /\ log' = Logged(PromptEvents \o
                     <<Event("turn.attempt.started", turn, attempt_count + 1, ""),
                       Event("turn.attempt.failed", turn, attempt_count + 1, ""),
                       Event("run.failed", 0, 0, "")>>)
    /\ pc' = "finally"
    /\ UNCHANGED <<cfg, turn, current_agent, transcript, dry_run_payload,
                   dry_run_triggered, extra_instruction, result, is_valid,
                   protocol_errors, structured_content, summary_file,
                   finalize_calls>>
    /\ UNCHANGED other_vars

\* AttemptEvents with the validation logged before the attempt is.
AttemptEventsValidatedFirst(t, a, valid) ==
    <<Event("protocol.validated", t, a, ""),
      Event("turn.attempt.started", t, a, ""),
      Event("turn.attempt.completed", t, a, ValidText(valid))>>

\* Lines 1315-1513: the events of an attempt in which invoke returned.
AttemptEvents(t, a, valid) ==
    <<Event("turn.attempt.started", t, a, ""),
      Event("protocol.validated", t, a, ""),
      Event("turn.attempt.completed", t, a, ValidText(valid))>>

\* A repair instruction that leaves the errors out.
RepairInstructionWithoutErrors(errors) == <<>>

\* Lines 1519-1540: the repair instruction quotes the errors of the reply.
RepairInstruction(errors) == errors

\* What the scenarios call a valid payload for the role of the agent: one
\* JSON object of the agent's schema with well-formed fields, whose commands
\* pass the command policy and stay in the workdir and whose result
\* declares no deliverables, which the validator takes for an unknown key.
ValidPayloadFor(agent, reply) ==
    /\ reply.fmt \in {"object", "embedded"}
    /\ reply.schema_version =
          (CASE agent = DUFFY -> PLAN_SCHEMA_VERSION
             [] agent = LINA_BELL -> DELIVERY_SCHEMA_VERSION
             [] agent = STELLA -> REVIEW_SCHEMA_VERSION)
    /\ reply.body_errors = <<>>
    /\ \A i \in 1..Len(reply.commands) : reply.commands[i] = CmdGood
    /\ reply.deliverables = <<>>

\* Lines 1233-1540: an attempt in which invoke returns a reply: validator,
\* safety gate, the events of the attempt and, for a rejected reply, the
\* repair instruction of the next attempt.
Attempt(reply) ==
    /\ pc = "attempt"
    /\ AttemptLoopRuns
    /\ ~cfg.dry_run
    /\ attempt_count' = attempt_count + 1
    /\ adjusted_prompt' = TurnPrompt
    /\ invoke_calls' = [invoke_calls EXCEPT ![turn] = @ + 1]
    /\ replies_valid' = (replies_valid /\ ValidPayloadFor(current_agent, reply))
    /\ result' = reply
    /\ LET g == GateResult(current_agent, reply, cfg)
       IN  /\ is_valid' = g.is_valid
           /\ protocol_errors' = g.errors
           /\ structured_content' = g.content
           /\ log' = Logged(PromptEvents \o
                            AttemptEvents(turn, attempt_count + 1, g.is_valid))
           /\ IF g.is_valid
              THEN /\ pc' = "after_attempts"
                   /\ UNCHANGED extra_instruction
              ELSE /\ extra_instruction' = RepairInstruction(g.errors)
                   /\ pc' = "attempt"
    /\ UNCHANGED <<cfg, turn, current_agent, transcript, run_error, dry_run_payload,
                   dry_run_triggered, summary_file, finalize_calls>>
    /\ UNCHANGED other_vars

\* The attempt loop has run MAX_PROTOCOL_RETRY + 1 times without a break.
AttemptsExhausted ==
    /\ pc = "attempt"
    /\ ~AttemptLoopRuns
    /\ pc' = "after_attempts"
    /\ UNCHANGED <<cfg, turn, current_agent, transcript, run_error, dry_run_payload,
                   dry_run_triggered, attempt_count, adjusted_prompt,
                   extra_instruction, result, is_valid, protocol_errors,
                   structured_content, log, summary_file, finalize_calls,
                   invoke_calls, replies_valid>>
    /\ UNCHANGED other_vars

\* Lines 1545-1549 and 1594-1602: the retry budget is used up.
RaiseProtocolFailure ==
    /\ pc = "after_attempts"
    /\ protocol_errors # <<>>
    /\ run_error' = RunError("RuntimeError", protocol_errors)
    /\ log' = Logged(<<Event("run.failed", 0, 0, "")>>)
    /\ pc' = "finally"
    /\ UNCHANGED <<cfg, turn, current_agent, transcript, dry_run_payload,
                   dry_run_triggered, attempt_count, adjusted_prompt,
                   extra_instruction, result, is_valid, protocol_errors,
                   structured_content, summary_file, finalize_calls, invoke_calls,
                   replies_valid>>
    /\ UNCHANGED other_vars

\* AppendTurn without the check of protocol_errors in front of it.
AppendTurnUnchecked ==
    /\ pc = "after_attempts"
    /\ transcript' = Append(transcript,
            [turn |-> turn, agent |-> current_agent, attempts |-> attempt_count,
             protocol_content |-> structured_content])
    /\ log' = Logged(<<Event("turn.completed", turn, attempt_count, "")>>)
    /\ current_agent' = _next_agent(current_agent)
    /\ pc' = "turn"
    /\ UNCHANGED <<cfg, turn, run_error, dry_run_payload, dry_run_triggered,
                   attempt_count, adjusted_prompt, extra_instruction, result,
                   is_valid, protocol_errors, structured_content, summary_file,
                   finalize_calls, invoke_calls, replies_valid>>
    /\ UNCHANGED other_vars

\* Lines 1551-1593: the turn is recorded and the next agent takes over.
AppendTurn ==
    /\ pc = "after_attempts"
    /\ protocol_errors = <<>>
    /\ transcript' = Append(transcript,
            [turn |-> turn, agent |-> current_agent, attempts |-> attempt_count,
             protocol_content |-> structured_content])
    /\ log' = Logged(<<Event("turn.completed", turn, attempt_count, "")>>)
    /\ current_agent' = _next_agent(current_agent)
    /\ pc' = "turn"
    /\ UNCHANGED <<cfg, turn, run_error, dry_run_payload, dry_run_triggered,
                   attempt_count, adjusted_prompt, extra_instruction, result,
                   is_valid, protocol_errors, structured_content, summary_file,
                   finalize_calls, invoke_calls, replies_valid>>
    /\ UNCHANGED other_vars

\* AuditLogger.finalize: the run.finalized event, then the summary file.
finalize(status, summary) ==
    /\ finalize_calls' = Append(finalize_calls, status)
    /\ log' = Logged(<<Event("run.finalized", 0, 0, status)>>)
    /\ summary_file' = IF cfg.log_enabled
                       THEN [summary EXCEPT !.status = status] ELSE summary_file

\* A status that ignores run_error.
FinalStatusIgnoringError == "success"

\* Line 1617: the status handed to finalize.
FinalStatus == IF run_error # NoError THEN "failed" ELSE "success"

\* The finally clause with the turn counter in place of len(transcript).
FinalizeCountingStartedTurns ==
    /\ pc = "finally"
    /\ finalize(FinalStatus,
                [status |-> None,
                 turns_completed |-> turn,
                 dry_run |-> dry_run_payload # NoPrompt,
                 error |-> run_error])
    /\ pc' = IF run_error # NoError THEN "raised" ELSE "returned"
    /\ UNCHANGED <<cfg, turn, current_agent, transcript, run_error, dry_run_payload,
                   dry_run_triggered, attempt_count, adjusted_prompt,
                   extra_instruction, result, is_valid, protocol_errors,
                   structured_content, invoke_calls, replies_valid>>
    /\ UNCHANGED other_vars

\* Lines 1603-1619: the finally clause; then the function returns or the
\* error leaves it.
Finalize ==
    /\ pc = "finally"
    /\ finalize(FinalStatus,
                [status |-> None,
                 turns_completed |-> Len(transcript),
                 dry_run |-> dry_run_payload # NoPrompt,
                 error |-> run_error])
    /\ pc' = IF run_error # NoError THEN "raised" ELSE "returned"
    /\ UNCHANGED <<cfg, turn, current_agent, transcript, run_error, dry_run_payload,
                   dry_run_triggered, attempt_count, adjusted_prompt,
                   extra_instruction, result, is_valid, protocol_errors,
                   structured_content, invoke_calls, replies_valid>>
    /\ UNCHANGED other_vars

Next ==
    \/ RejectArguments
    \/ StartRun
    \/ StartTurn
    \/ TurnsDone
    \/ DryRunAttempt
    \/ AttemptRaises
    \/ \E reply \in Replies : Attempt(reply)
    \/ AttemptsExhausted
    \/ RaiseProtocolFailure
    \/ AppendTurn
    \/ Finalize

all_vars == <<vars, other_vars>>

Spec == Init /\ [][Next]_all_vars

(***************************************************************************)
(* invoke, step by step.                                                   *)
(***************************************************************************)
\* No run of the orchestrator is modelled.
RunOff ==
    /\ cfg = [rounds |-> 0, start_agent |-> "nobody", dry_run |-> FALSE,
              log_enabled |-> FALSE, response_mode |-> "execute",
              read_only |-> FALSE, allowlist_nonempty |-> FALSE]
    /\ pc = "off"
    /\ turn = 0
    /\ current_agent = ""
    /\ transcript = <<>>
    /\ run_error = NoError
    /\ dry_run_payload = NoPrompt
    /\ dry_run_triggered = FALSE
    /\ attempt_count = 0
    /\ adjusted_prompt = NoPrompt
    /\ extra_instruction = <<>>
    /\ result = NoReply
    /\ is_valid = FALSE
    /\ protocol_errors = <<>>
    /\ structured_content = NoReply
    /\ log = <<>>
    /\ summary_file = NoSummary
    /\ finalize_calls = <<>>
    /\ invoke_calls = [t \in 1..MaxRounds |-> 0]
    /\ replies_valid = TRUE

\* What a step of invoke leaves alone.
outside_invoke == <<vars, runner_vars, adapter_vars, rest_vars>>

InvokeArgs ==
    [cli : Clis,
     use_session : {None, "true", "false"},
     defaults_use_session : BOOLEAN,
     provider_use_session : {None, "true", "false"},
     retry_attempts : (-1)..MaxRetryAttempts,
     retry_backoff_s : RetryBackoffs]

InvokeInit ==
    /\ RunOff
    /\ RunnerOff
    /\ AdapterOff
    /\ RestOff
    /\ invoke_args \in InvokeArgs
    /\ invoke_pc = "start"
    /\ attempt = 0
    /\ last_session_id = None
    /\ provider_calls = <<>>
    /\ sleeps = <<>>
    /\ provider_error = NoProcessError
    /\ invoke_result = NoResult
    /\ session_store \in {None, " ", "stale-id"}
    /\ store_reads = 0
    /\ store_writes = 0

\* Lines 99-101: the explicit argument, else defaults.use_session.
resolved_use_session_from_defaults_only == invoke_args.defaults_use_session

resolved_use_session ==
    IF invoke_args.use_session = None THEN invoke_args.defaults_use_session
    ELSE invoke_args.use_session = "true"

\* session_store.get_session_id on the stored sessionId.
get_session_id(stored) == IF ProperSessionId(stored) THEN stored ELSE None

\* Lines 88-92: PROVIDERS.get(provider_name).
provider_name == _normalize_cli(invoke_args.cli)

\* Lines 88-92: a cli that names no provider of the dispatch table is
\* rejected with the ValueError "Unsupported cli".
RejectCli ==
    /\ invoke_pc = "start"
    /\ provider_name \notin PROVIDERS
    /\ invoke_pc' = "unsupported_cli"
    /\ UNCHANGED <<invoke_args, attempt, last_session_id, provider_calls, sleeps,
                   provider_error, invoke_result, session_store, store_reads,
                   store_writes>>
    /\ UNCHANGED outside_invoke

\* Lines 136-137: a negative retry_attempts is rejected before any call.
RejectRetryAttempts ==
    /\ invoke_pc = "start"
    /\ provider_name \in PROVIDERS
    /\ invoke_args.retry_attempts < 0
    /\ invoke_pc' = "value_error"
    /\ UNCHANGED <<invoke_args, attempt, last_session_id, provider_calls, sleeps,
                   provider_error, invoke_result, session_store, store_reads,
                   store_writes>>
    /\ UNCHANGED outside_invoke

\* Lines 139-141: the stored session id is read when sessions are in use.
ReadSession ==
    /\ invoke_pc = "start"
    /\ provider_name \in PROVIDERS
    /\ invoke_args.retry_attempts >= 0
    /\ last_session_id' = IF resolved_use_session
                          THEN get_session_id(session_store) ELSE None
    /\ store_reads' = IF resolved_use_session THEN store_reads + 1 ELSE store_reads
    /\ attempt' = 0
    /\ invoke_pc' = "call"
    /\ UNCHANGED <<invoke_args, provider_calls, sleeps, provider_error,
                   invoke_result, session_store, store_writes>>
    /\ UNCHANGED outside_invoke

\* Lines 144-156 and 169-181: the provider returns; its session id is stored
\* and the result is built. save_session_store (session_store.py 41-57) has
\* no except clause: an OSError of mkdir, write_text or os.replace leaves
\* set_session_id and invoke, and the file is as it was.
ProviderReturns(new_session_id, saved) ==
    /\ invoke_pc = "call"
    /\ provider_calls' = Append(provider_calls, last_session_id)
    /\ IF resolved_use_session /\ ProperSessionId(new_session_id)
       THEN /\ store_writes' = store_writes + 1
            /\ IF saved
               THEN /\ session_store' = new_session_id
                    /\ invoke_result' = [session_id |-> new_session_id,
                                         retry_count |-> attempt]
                    /\ invoke_pc' = "returned"
               ELSE /\ invoke_pc' = "os_error"
                    /\ UNCHANGED <<session_store, invoke_result>>
       ELSE /\ invoke_result' = [session_id |-> new_session_id,
                                 retry_count |-> attempt]
            /\ invoke_pc' = "returned"
            /\ UNCHANGED <<session_store, store_writes>>
    /\ UNCHANGED <<invoke_args, attempt, last_session_id, sleeps, provider_error,
                   store_reads>>
    /\ UNCHANGED outside_invoke

\* Line 160: the wait before retry number attempt.
wait_s == invoke_args.retry_backoff_s * Pow2(attempt)

\* Lines 144-167: the provider raises a ProcessExecutionError; it is raised
\* again or the call is repeated after a sleep.
ProviderRaises(error) ==
    /\ invoke_pc = "call"
    /\ provider_calls' = Append(provider_calls, last_session_id)
    /\ provider_error' = error
    /\ IF attempt >= invoke_args.retry_attempts \/ ~_is_retryable_process_error(error)
       THEN /\ invoke_pc' = "raised"
            /\ UNCHANGED <<sleeps, attempt>>
       ELSE /\ sleeps' = Append(sleeps, wait_s)
            /\ attempt' = attempt + 1
            /\ invoke_pc' = "call"
    /\ UNCHANGED <<invoke_args, last_session_id, invoke_result, session_store,
                   store_reads, store_writes>>
    /\ UNCHANGED outside_invoke

InvokeNext ==
    \/ RejectCli
    \/ RejectRetryAttempts
    \/ ReadSession
    \/ \E new_session_id \in SessionIds, saved \in BOOLEAN :
          ProviderReturns(new_session_id, saved)
    \/ \E error \in ProcessErrors : ProviderRaises(error)

SpecInvoke == InvokeInit /\ [][InvokeNext]_all_vars

(***************************************************************************)
(* run_stream_process, step by step.                                       *)
(***************************************************************************)
\* What a step of run_stream_process leaves alone.
outside_runner == <<vars, invoke_vars, adapter_vars, rest_vars>>

\* A timeout that does not expire while the clock is followed.
Never == MaxClock

\* The handlers of a process that installed none, in the main thread.
PlainCaller ==
    [previous : {[SIGINT |-> "default_int_handler", SIGTERM |-> "SIG_DFL"]},
     main_thread : {TRUE}]

\* The callers with any of the previous handlers, in the main thread or not.
Callers == [previous : PreviousHandlers, main_thread : BOOLEAN]

\* What the child does and what the call is given, apart from the caller.
\* Children that write and exit on their own, without timeouts or signals;
\* the same with a callback that raises on its first or second line; a call
\* during which the parent is signalled; calls whose timeouts can expire,
\* with a child that writes nothing, never exits on its own and obeys
\* terminate() or not; the same with a parent that is signalled; with a child
\* that writes a line and exits on its own or not; with a child that writes
\* on stderr only and never exits on its own.
ChildRuns ==
    [stdout : StdoutTexts, stderr : StderrTexts, exits : {TRUE},
     exit_code : ExitCodes, obeys_terminate : {TRUE}, idle_timeout_s : {Never},
     max_timeout_s : {Never}, terminate_grace_s : {0},
     callback_raises_at : {0}, signalled : {FALSE}]
    \cup
    [stdout : {<<"a", NL, "b">>}, stderr : {<<>>}, exits : {TRUE},
     exit_code : ExitCodes, obeys_terminate : {TRUE}, idle_timeout_s : {Never},
     max_timeout_s : {Never}, terminate_grace_s : {0},
     callback_raises_at : {1, 2}, signalled : {FALSE}]
    \cup
    [stdout : {<<"a", NL, "b">>}, stderr : {<<>>}, exits : BOOLEAN,
     exit_code : {"0"}, obeys_terminate : {TRUE}, idle_timeout_s : {Never},
     max_timeout_s : {Never}, terminate_grace_s : {0},
     callback_raises_at : {0}, signalled : {TRUE}]
    \cup
    [stdout : {<<>>}, stderr : {<<>>}, exits : {FALSE},
     exit_code : {"0"}, obeys_terminate : BOOLEAN,
     idle_timeout_s : IdleTimeouts, max_timeout_s : MaxTimeouts,
     terminate_grace_s : GracePeriods,
     callback_raises_at : {0}, signalled : {FALSE}]
    \cup
    [stdout : {<<>>}, stderr : {<<>>}, exits : {FALSE},
     exit_code : {"0"}, obeys_terminate : BOOLEAN,
     idle_timeout_s : {1}, max_timeout_s : {2},
     terminate_grace_s : GracePeriods,
     callback_raises_at : {0}, signalled : {TRUE}]
    \cup
    [stdout : {<<"a", NL>>}, stderr : {<<>>}, exits : BOOLEAN,
     exit_code : {"0"}, obeys_terminate : {TRUE},
     idle_timeout_s : IdleTimeouts, max_timeout_s : MaxTimeouts,
     terminate_grace_s : {0},
     callback_raises_at : {0}, signalled : {FALSE}]
    \cup
    [stdout : {<<>>}, stderr : {<<"e", NL>>}, exits : {FALSE},
     exit_code : {"0"}, obeys_terminate : {TRUE},
     idle_timeout_s : {1}, max_timeout_s : {2},
     terminate_grace_s : {0},
     callback_raises_at : {0}, signalled : {FALSE}]

\* A child that writes nothing and exits on its own, without timeouts.
QuietRuns ==
    [stdout : {<<>>}, stderr : {<<>>}, exits : {TRUE},
     exit_code : ExitCodes, obeys_terminate : {TRUE}, idle_timeout_s : {Never},
     max_timeout_s : {Never}, terminate_grace_s : {0},
     callback_raises_at : {0}, signalled : {FALSE}]

\* The arguments of a call: what the child does, and the caller.
CallOf(run, caller) ==
    [stdout |-> run.stdout, stderr |-> run.stderr, exits |-> run.exits,
     exit_code |-> run.exit_code, obeys_terminate |-> run.obeys_terminate,
     idle_timeout_s |-> run.idle_timeout_s,
     max_timeout_s |-> run.max_timeout_s,
     terminate_grace_s |-> run.terminate_grace_s,
     callback_raises_at |-> run.callback_raises_at,
     signalled |-> run.signalled, previous |-> caller.previous,
     main_thread |-> caller.main_thread]

\* The calls the model follows: every child with a plain caller, and the
\* quiet child with every caller.
RunArgs ==
    { CallOf(run, caller) : run \in ChildRuns, caller \in PlainCaller }
    \cup
    { CallOf(run, caller) : run \in QuietRuns, caller \in Callers }

RunnerInit ==
    /\ RunOff
    /\ InvokeOff
    /\ AdapterOff
    /\ RestOff
    /\ \E args \in RunArgs : RunnerStarted(args)
    /\ sup_pc = "get"

child_vars == <<child_alive, return_code, written, term_pending, kill_pending>>
drain_vars == <<consumed, buffer, drainer_pc>>
clock_vars == <<now, last_activity>>
term_vars == <<terminated_reason, term_reason, term_return, stop_signals>>
sup_vars == <<sup_pc, max_exceeded, delivered,
              stderr_lines, raised_reason>>
new_vars == <<grace_deadline, handler_vars, hook_vars, hist_vars>>

\* run_stream_process has not returned or raised yet; the child and the
\* drainers are followed until it does.
InCall == sup_pc \notin {"off", "returned", "raised"}

\* The main thread runs the supervisor: signal_handler, which runs in the main
\* thread as well, is not in progress.
MainThread == handler_pc = "none"

\* process.poll(): None while the child runs, its return code after.
poll_always_none == None

poll == IF child_alive THEN None ELSE return_code

\* A bump that only a read from stdout makes.
bump_activity_for_stdout(s) == IF s = "stdout" THEN now ELSE last_activity

\* Lines 206-209: bump_activity, which the drainer of either pipe calls after
\* a read that returned something.
bump_activity(s) == now

\* The end of the grace period: the deadline has come, or the clock is not
\* followed any further.
GraceOver(deadline) == now >= deadline \/ now >= MaxClock

\* The text the child writes on a pipe.
Text(s) == IF s = "stdout" THEN run_args.stdout ELSE run_args.stderr

\* The characters written on a pipe and not read yet.
Pipe(s) == SubSeq(Text(s), consumed[s] + 1, written[s])

\* The child writes the next character on one of its pipes.
ChildWrites(s) ==
    /\ InCall
    /\ child_alive
    /\ written[s] < Len(Text(s))
    /\ written' = [written EXCEPT ![s] = @ + 1]
    /\ UNCHANGED <<run_args, child_alive, return_code, term_pending, kill_pending,
                   drain_vars, clock_vars, term_vars, sup_vars, line_queue,
                   stop_event, signal_received>>
    /\ UNCHANGED new_vars
    /\ UNCHANGED outside_runner

\* The child has written everything and exits on its own.
ChildExits ==
    /\ InCall
    /\ child_alive
    /\ run_args.exits
    /\ \A s \in Sources : written[s] = Len(Text(s))
    /\ child_alive' = FALSE
    /\ return_code' = run_args.exit_code
    /\ UNCHANGED <<run_args, written, term_pending, kill_pending, drain_vars,
                   clock_vars, term_vars, sup_vars, line_queue, stop_event,
                   signal_received>>
    /\ UNCHANGED new_vars
    /\ UNCHANGED outside_runner

\* A signal sent by terminate() or kill() ends the child.
ChildSignalled ==
    /\ InCall
    /\ child_alive
    /\ \/ /\ kill_pending
          /\ return_code' = SIGKILL_CODE
       \/ /\ term_pending
          /\ run_args.obeys_terminate
          /\ return_code' = SIGTERM_CODE
    /\ child_alive' = FALSE
    /\ UNCHANGED <<run_args, written, term_pending, kill_pending, drain_vars,
                   clock_vars, term_vars, sup_vars, line_queue, stop_event,
                   signal_received>>
    /\ UNCHANGED new_vars
    /\ UNCHANGED outside_runner

\* Lines 158-162: stream.read(4096) returns what the pipe holds, or "" once
\* the child is gone and the pipe is empty.
DrainerRead(s) ==
    /\ InCall
    /\ drainer_pc[s] = "read"
    /\ IF Pipe(s) # <<>>
       THEN /\ buffer' = [buffer EXCEPT ![s] = @ \o Pipe(s)]
            /\ consumed' = [consumed EXCEPT ![s] = written[s]]
            /\ last_activity' = bump_activity(s)
            /\ last_read' = [last_read EXCEPT ![s] = now]
            /\ drainer_pc' = [drainer_pc EXCEPT ![s] = "split"]
       ELSE /\ ~child_alive
            /\ drainer_pc' = [drainer_pc EXCEPT ![s] = "flush"]
            /\ UNCHANGED <<buffer, consumed, last_activity, last_read>>
    /\ UNCHANGED <<run_args, child_vars, now, term_vars, sup_vars, line_queue,
                   stop_event, signal_received>>
    /\ UNCHANGED <<grace_deadline, handler_vars, hook_vars, first_reason,
                   last_reason, kill_signals>>
    /\ UNCHANGED outside_runner

\* Lines 163-169 and 157: one turn of the inner loop, which puts the next
\* complete line on the queue; when there is none, the outer loop's condition
\* decides between the next read and the end.
DrainerSplit(s) ==
    /\ InCall
    /\ drainer_pc[s] = "split"
    /\ LET idx == find_newline(buffer[s])
       IN  IF idx = 0
           THEN /\ drainer_pc' = [drainer_pc EXCEPT
                                     ![s] = IF stop_event THEN "flush" ELSE "read"]
                /\ UNCHANGED <<buffer, line_queue>>
           ELSE /\ ~full(line_queue)
                /\ line_queue' = Append(line_queue,
                        <<s, rstrip_cr(SubSeq(buffer[s], 1, idx - 1))>>)
                /\ buffer' = [buffer EXCEPT
                                 ![s] = SubSeq(@, idx + 1, Len(@))]
                /\ UNCHANGED drainer_pc
    /\ UNCHANGED <<run_args, child_vars, consumed, clock_vars, term_vars, sup_vars,
                   stop_event, signal_received>>
    /\ UNCHANGED new_vars
    /\ UNCHANGED outside_runner

\* A flush that puts the last line ahead of what the queue holds.
DrainerFlushAhead(s) ==
    /\ InCall
    /\ drainer_pc[s] = "flush"
    /\ buffer[s] # <<>> => ~full(line_queue)
    /\ line_queue' = IF buffer[s] # <<>>
                     THEN <<<<s, rstrip_cr(buffer[s])>>>> \o line_queue
                     ELSE line_queue
    /\ drainer_pc' = [drainer_pc EXCEPT ![s] = "done"]
    /\ UNCHANGED <<run_args, child_vars, consumed, buffer, clock_vars, term_vars,
                   sup_vars, stop_event, signal_received>>
    /\ UNCHANGED new_vars
    /\ UNCHANGED outside_runner

\* Lines 171-173: what is left in the buffer at the end is put as a last line
\* and the thread ends.
DrainerFlush(s) ==
    /\ InCall
    /\ drainer_pc[s] = "flush"
    /\ buffer[s] # <<>> => ~full(line_queue)
    /\ line_queue' = IF buffer[s] # <<>>
                     THEN Append(line_queue, <<s, rstrip_cr(buffer[s])>>)
                     ELSE line_queue
    /\ drainer_pc' = [drainer_pc EXCEPT ![s] = "done"]
    /\ UNCHANGED <<run_args, child_vars, consumed, buffer, clock_vars, term_vars,
                   sup_vars, stop_event, signal_received>>
    /\ UNCHANGED new_vars
    /\ UNCHANGED outside_runner

\* threading.Thread.is_alive().
is_alive(s) == drainer_pc[s] # "done"

\* Lines 319-356: line_queue.get(timeout=0.1) and the handling of what it
\* returned; a stdout line goes to on_stdout_line, which may raise.
SupervisorGet ==
    /\ MainThread
    /\ sup_pc = "get"
    /\ IF line_queue = <<>>
       THEN /\ sup_pc' = "poll"
            /\ UNCHANGED <<line_queue, delivered, stderr_lines, term_reason,
                           term_return>>
       ELSE LET source == Head(line_queue)[1]
                line == Head(line_queue)[2]
            IN  /\ line_queue' = Tail(line_queue)
                /\ IF source = "stderr"
                   THEN /\ stderr_lines' = IF strip(line) # <<>>
                                           THEN Append(stderr_lines, strip(line))
                                           ELSE stderr_lines
                        /\ sup_pc' = "poll"
                        /\ UNCHANGED <<delivered, term_reason, term_return>>
                   ELSE /\ delivered' = Append(delivered, line)
                        /\ IF Len(delivered') = run_args.callback_raises_at
                           THEN /\ term_reason' = "callback_error"
                                /\ term_return' = "raise_callback"
                                /\ sup_pc' = "terminate"
                           ELSE /\ sup_pc' = "poll"
                                /\ UNCHANGED <<term_reason, term_return>>
                        /\ UNCHANGED stderr_lines
    /\ UNCHANGED <<run_args, child_vars, drain_vars, clock_vars, max_exceeded, terminated_reason,
                   stop_signals, raised_reason, stop_event, signal_received>>
    /\ UNCHANGED new_vars
    /\ UNCHANGED outside_runner

\* Lines 358-367: now, idle_for and running are computed. A running child
\* that was idle for too long is terminated, and so is one that ran for too
\* long; with running true the loop goes on, whatever the queue holds.
SupervisorPoll ==
    /\ MainThread
    /\ sup_pc = "poll"
    /\ LET running == child_alive
           idle_for == now - last_activity
       IN  IF running /\ idle_for > run_args.idle_timeout_s
           THEN /\ term_reason' = "idle_timeout"
                /\ term_return' = "max_check"
                /\ max_exceeded' = (now > run_args.max_timeout_s)
                /\ sup_pc' = "terminate"
           ELSE IF running /\ now > run_args.max_timeout_s
           THEN /\ term_reason' = "max_timeout"
                /\ term_return' = "get"
                /\ sup_pc' = "terminate"
                /\ UNCHANGED max_exceeded
           ELSE /\ sup_pc' = IF running THEN "get" ELSE "break_queue"
                /\ UNCHANGED <<term_reason, term_return, max_exceeded>>
    /\ UNCHANGED <<run_args, child_vars, drain_vars, clock_vars,
                   terminated_reason, stop_signals, delivered, stderr_lines,
                   raised_reason, line_queue, stop_event, signal_received>>
    /\ UNCHANGED new_vars
    /\ UNCHANGED outside_runner

\* Lines 364-367 after terminate_process("idle_timeout") returned: running is
\* still true, so the child is terminated again when it ran for too long, and
\* the loop goes on.
SupervisorMaxCheck ==
    /\ MainThread
    /\ sup_pc = "max_check"
    /\ IF max_exceeded
       THEN /\ term_reason' = "max_timeout"
            /\ term_return' = "get"
            /\ sup_pc' = "terminate"
       ELSE /\ sup_pc' = "get"
            /\ UNCHANGED <<term_reason, term_return>>
    /\ max_exceeded' = FALSE
    /\ UNCHANGED <<run_args, child_vars, drain_vars, clock_vars,
                   terminated_reason, stop_signals, delivered, stderr_lines,
                   raised_reason, line_queue, stop_event, signal_received>>
    /\ UNCHANGED new_vars
    /\ UNCHANGED outside_runner

\* A record that keeps the reason it holds.
record_reason_once(reason) ==
    IF terminated_reason = None THEN reason ELSE terminated_reason

\* Line 219: terminated_reason = reason.
record_reason(reason) == reason

\* Lines 216-223: terminate_process returns at once for a child that has
\* exited, else records the reason, calls process.terminate() and sets the
\* deadline of the grace period.
TerminateProcess ==
    /\ MainThread
    /\ sup_pc = "terminate"
    /\ IF poll # None
       THEN /\ sup_pc' = term_return
            /\ term_reason' = None
            /\ term_return' = None
            /\ UNCHANGED <<terminated_reason, stop_signals, term_pending,
                           grace_deadline, first_reason, last_reason>>
       ELSE /\ terminated_reason' = record_reason(term_reason)
            /\ first_reason' = IF first_reason = None THEN term_reason
                               ELSE first_reason
            /\ last_reason' = term_reason
            /\ stop_signals' = stop_signals \cup {term_reason}
            /\ term_pending' = TRUE
            /\ grace_deadline' = now + run_args.terminate_grace_s
            /\ sup_pc' = "grace"
            /\ UNCHANGED <<term_reason, term_return>>
    /\ UNCHANGED <<run_args, child_alive, return_code, written, kill_pending,
                   drain_vars, clock_vars, max_exceeded, delivered, stderr_lines,
                   raised_reason, line_queue, stop_event, signal_received>>
    /\ UNCHANGED <<handler_vars, hook_vars, kill_signals, last_read>>
    /\ UNCHANGED outside_runner

\* A grace period after which no kill() follows.
TerminateGraceWithoutKill ==
    /\ MainThread
    /\ sup_pc = "grace"
    /\ poll # None \/ GraceOver(grace_deadline)
    /\ sup_pc' = term_return
    /\ term_reason' = None
    /\ term_return' = None
    /\ UNCHANGED <<run_args, child_vars, drain_vars, clock_vars,
                   terminated_reason, stop_signals, max_exceeded, delivered,
                   stderr_lines, raised_reason, line_queue, stop_event,
                   signal_received>>
    /\ UNCHANGED new_vars
    /\ UNCHANGED outside_runner

\* Lines 225-235: the child is seen to have exited within the grace period,
\* or the period ends with the child alive and process.kill() is called.
TerminateGrace ==
    /\ MainThread
    /\ sup_pc = "grace"
    /\ poll # None \/ GraceOver(grace_deadline)
    /\ IF poll = None
       THEN /\ kill_pending' = TRUE
            /\ kill_signals' = kill_signals \cup {term_reason}
       ELSE UNCHANGED <<kill_pending, kill_signals>>
    /\ sup_pc' = term_return
    /\ term_reason' = None
    /\ term_return' = None
    /\ UNCHANGED <<run_args, child_alive, return_code, written, term_pending,
                   drain_vars, clock_vars, terminated_reason, stop_signals,
                   max_exceeded, delivered, stderr_lines, raised_reason,
                   line_queue, stop_event, signal_received>>
    /\ UNCHANGED <<grace_deadline, handler_vars, hook_vars, first_reason,
                   last_reason, last_read>>
    /\ UNCHANGED outside_runner

\* Line 367 with running false: line_queue.empty().
SupervisorBreakQueue ==
    /\ MainThread
    /\ sup_pc = "break_queue"
    /\ sup_pc' = IF line_queue = <<>> THEN "break_stdout" ELSE "get"
    /\ UNCHANGED <<run_args, child_vars, drain_vars, clock_vars, term_vars,
                   max_exceeded, delivered,
                   stderr_lines, raised_reason, line_queue, stop_event,
                   signal_received>>
    /\ UNCHANGED new_vars
    /\ UNCHANGED outside_runner

\* Line 367, after that: not stdout_thread.is_alive(), then
\* not stderr_thread.is_alive(), each read when the evaluation reaches it.
SupervisorBreakThread(s) ==
    /\ MainThread
    /\ sup_pc = IF s = "stdout" THEN "break_stdout" ELSE "break_stderr"
    /\ sup_pc' = IF is_alive(s) THEN "get"
                 ELSE IF s = "stdout" THEN "break_stderr" ELSE "wait"
    /\ UNCHANGED <<run_args, child_vars, drain_vars, clock_vars, term_vars,
                   max_exceeded, delivered,
                   stderr_lines, raised_reason, line_queue, stop_event,
                   signal_received>>
    /\ UNCHANGED new_vars
    /\ UNCHANGED outside_runner

\* A classification that looks at the return code before the recorded reason.
ClassifyReturnCodeFirst ==
    /\ MainThread
    /\ sup_pc = "wait"
    /\ ~child_alive
    /\ stop_event' = TRUE
    /\ raised_reason' = IF return_code = "0" THEN None
                        ELSE IF terminated_reason # None THEN terminated_reason
                        ELSE "nonzero_exit"
    /\ sup_pc' = "finally"
    /\ UNCHANGED <<run_args, child_vars, drain_vars, clock_vars, term_vars,
                   max_exceeded, delivered, stderr_lines, line_queue,
                   signal_received>>
    /\ UNCHANGED new_vars
    /\ UNCHANGED outside_runner

\* Lines 370-403: process.wait(), then the outcome, which the finally block
\* follows.
Classify ==
    /\ MainThread
    /\ sup_pc = "wait"
    /\ ~child_alive
    /\ stop_event' = TRUE
    /\ raised_reason' = IF terminated_reason # None THEN terminated_reason
                        ELSE IF return_code # "0" THEN "nonzero_exit"
                        ELSE None
    /\ sup_pc' = "finally"
    /\ UNCHANGED <<run_args, child_vars, drain_vars, clock_vars, term_vars,
                   max_exceeded, delivered,
                   stderr_lines, line_queue, signal_received>>
    /\ UNCHANGED new_vars
    /\ UNCHANGED outside_runner

\* Lines 348-356: after terminate_process("callback_error") the callback's
\* exception leaves as a callback_error, through the finally block.
RaiseCallbackError ==
    /\ MainThread
    /\ sup_pc = "raise_callback"
    /\ raised_reason' = "callback_error"
    /\ sup_pc' = "finally"
    /\ UNCHANGED <<run_args, child_vars, drain_vars, clock_vars, term_vars,
                   max_exceeded, delivered, stderr_lines, line_queue,
                   stop_event, signal_received>>
    /\ UNCHANGED new_vars
    /\ UNCHANGED outside_runner

\* Lines 405-411: the finally block sets stop_event and terminates a child
\* that is still running for "cleanup".
Finally ==
    /\ MainThread
    /\ sup_pc = "finally"
    /\ stop_event' = TRUE
    /\ IF poll = None
       THEN /\ term_reason' = "cleanup"
            /\ term_return' = "wait_cleanup"
            /\ sup_pc' = "terminate"
       ELSE /\ sup_pc' = "restore"
            /\ UNCHANGED <<term_reason, term_return>>
    /\ UNCHANGED <<run_args, child_vars, drain_vars, clock_vars,
                   terminated_reason, stop_signals, max_exceeded, delivered,
                   stderr_lines, raised_reason, line_queue, signal_received>>
    /\ UNCHANGED new_vars
    /\ UNCHANGED outside_runner

\* Lines 408-411: process.wait(timeout=2.0) returns or times out, and the
\* exception of a timeout is dropped.
WaitCleanup ==
    /\ MainThread
    /\ sup_pc = "wait_cleanup"
    /\ sup_pc' = "restore"
    /\ UNCHANGED <<run_args, child_vars, drain_vars, clock_vars, term_vars,
                   max_exceeded, delivered, stderr_lines, raised_reason,
                   line_queue, stop_event, signal_received>>
    /\ UNCHANGED new_vars
    /\ UNCHANGED outside_runner

\* Lines 419-423: signal.signal(sig, previous) for each signal, any exception
\* dropped: outside the main thread it raises ValueError, and for a previous
\* handler of None it raises TypeError; the handler stays as it is then.
restore(args, installed_now) ==
    [sig \in Signals |->
        IF args.main_thread /\ args.previous[sig] # "None"
        THEN args.previous[sig] ELSE installed_now[sig]]

\* Lines 413-423 and the end of the call: atexit_cleanup is unregistered, the
\* handlers are restored, and the call returns or raises.
Restore ==
    /\ MainThread
    /\ sup_pc = "restore"
    /\ atexit_registered' = FALSE
    /\ handlers' = restore(run_args, handlers)
    /\ sup_pc' = IF raised_reason = None THEN "returned" ELSE "raised"
    /\ UNCHANGED <<run_args, child_vars, drain_vars, clock_vars, term_vars,
                   max_exceeded, delivered, stderr_lines, raised_reason,
                   line_queue, stop_event, signal_received>>
    /\ UNCHANGED <<grace_deadline, handler_vars, hist_vars>>
    /\ UNCHANGED outside_runner

\* Lines 239-241: SIGINT or SIGTERM reaches the parent while the call runs
\* and the handler is installed; the handler, which interrupts the main
\* thread wherever it is, records the signal and sets stop_event.
ParentSignal ==
    /\ InCall
    /\ run_args.signalled
    /\ ~signal_received
    /\ \E sig \in Signals : handlers[sig] = "signal_handler"
    /\ signal_received' = TRUE
    /\ stop_event' = TRUE
    /\ handler_pc' = "terminate"
    /\ UNCHANGED <<run_args, child_vars, drain_vars, clock_vars, term_vars,
                   sup_vars, line_queue>>
    /\ UNCHANGED <<grace_deadline, handler_deadline, hook_vars, hist_vars>>
    /\ UNCHANGED outside_runner

\* Lines 242 and 216-223: the handler's terminate_process("parent_signal").
HandlerTerminate ==
    /\ handler_pc = "terminate"
    /\ IF poll # None
       THEN /\ handler_pc' = "none"
            /\ UNCHANGED <<terminated_reason, stop_signals, term_pending,
                           handler_deadline, first_reason, last_reason>>
       ELSE /\ terminated_reason' = record_reason("parent_signal")
            /\ first_reason' = IF first_reason = None THEN "parent_signal"
                               ELSE first_reason
            /\ last_reason' = "parent_signal"
            /\ stop_signals' = stop_signals \cup {"parent_signal"}
            /\ term_pending' = TRUE
            /\ handler_deadline' = now + run_args.terminate_grace_s
            /\ handler_pc' = "grace"
    /\ UNCHANGED <<run_args, child_alive, return_code, written, kill_pending,
                   drain_vars, clock_vars, term_reason, term_return, sup_vars,
                   line_queue, stop_event, signal_received>>
    /\ UNCHANGED <<grace_deadline, hook_vars, kill_signals, last_read>>
    /\ UNCHANGED outside_runner

\* Lines 225-235 in the handler: the end of its grace period, after which the
\* main thread goes on.
HandlerGrace ==
    /\ handler_pc = "grace"
    /\ poll # None \/ GraceOver(handler_deadline)
    /\ IF poll = None
       THEN /\ kill_pending' = TRUE
            /\ kill_signals' = kill_signals \cup {"parent_signal"}
       ELSE UNCHANGED <<kill_pending, kill_signals>>
    /\ handler_pc' = "none"
    /\ UNCHANGED <<run_args, child_alive, return_code, written, term_pending,
                   drain_vars, clock_vars, term_vars, sup_vars, line_queue,
                   stop_event, signal_received>>
    /\ UNCHANGED <<grace_deadline, handler_deadline, hook_vars, first_reason,
                   last_reason, last_read>>
    /\ UNCHANGED outside_runner

\* time.monotonic() moves on. The clock is followed while the child is alive,
\* in calls with a timeout that can expire and during a grace period: no
\* other reading of it has an effect.
Tick ==
    /\ InCall
    /\ child_alive
    /\ \/ run_args.idle_timeout_s < Never
       \/ run_args.max_timeout_s < Never
       \/ sup_pc = "grace" /\ now < grace_deadline
       \/ handler_pc = "grace" /\ now < handler_deadline
    /\ now < MaxClock
    /\ now' = now + 1
    /\ UNCHANGED <<run_args, child_vars, drain_vars, last_activity, term_vars,
                   sup_vars, line_queue, stop_event, signal_received>>
    /\ UNCHANGED new_vars
    /\ UNCHANGED outside_runner

SupervisorNext ==
    \/ SupervisorGet
    \/ SupervisorPoll
    \/ SupervisorMaxCheck
    \/ TerminateProcess
    \/ TerminateGrace
    \/ SupervisorBreakQueue
    \/ \E s \in Sources : SupervisorBreakThread(s)
    \/ Classify
    \/ RaiseCallbackError
    \/ Finally
    \/ WaitCleanup
    \/ Restore

HandlerNext ==
    \/ HandlerTerminate
    \/ HandlerGrace

DrainerNext(s) ==
    \/ DrainerRead(s)
    \/ DrainerSplit(s)
    \/ DrainerFlush(s)

ChildNext ==
    \/ \E s \in Sources : ChildWrites(s)
    \/ ChildExits
    \/ ChildSignalled

RunnerNext ==
    \/ SupervisorNext
    \/ \E s \in Sources : DrainerNext(s)
    \/ ChildNext
    \/ ParentSignal
    \/ HandlerNext
    \/ Tick

SpecRunner == RunnerInit /\ [][RunnerNext]_all_vars

\* The calls with a child that stays alive and writes nothing, which no
\* signal interrupts.
SilentChild ==
    /\ run_args.stdout = <<>>
    /\ run_args.stderr = <<>>
    /\ ~run_args.exits
    /\ ~run_args.signalled

IdleInit == RunnerInit /\ SilentChild

\* The steps such a call can take: nothing is written, so no line is split
\* off or passed to the callback.
IdleNext ==
    \/ SupervisorGet
    \/ SupervisorPoll
    \/ SupervisorMaxCheck
    \/ TerminateProcess
    \/ TerminateGrace
    \/ SupervisorBreakQueue
    \/ \E s \in Sources : SupervisorBreakThread(s)
    \/ Classify
    \/ Finally
    \/ Restore
    \/ \E s \in Sources : DrainerRead(s)
    \/ \E s \in Sources : DrainerFlush(s)
    \/ ChildSignalled
    \/ Tick

\* The supervisor and the drainers are threads the scheduler keeps running,
\* the clock moves on, and a signal that ends the child does so in the end.
SpecIdle ==
    /\ IdleInit
    /\ [][IdleNext]_all_vars
    /\ WF_all_vars(SupervisorNext)
    /\ \A s \in Sources : WF_all_vars(DrainerNext(s))
    /\ WF_all_vars(Tick)
    /\ WF_all_vars(ChildSignalled)

(***************************************************************************)
(* An adapter call, event by event.                                        *)
(***************************************************************************)
\* What a step of an adapter leaves alone.
outside_adapter == <<vars, invoke_vars, runner_vars, rest_vars>>

AdapterArgs ==
    UNION { { [provider |-> p, text |-> t, stream |-> s] :
                s \in Streams(p, t) \cup NoisyStreams(p, t) } :
            <<p, t>> \in Providers \X FinalTexts }

\* The callback raised: run_stream_process terminates the child and raises
\* ProcessExecutionError(reason="callback_error"), which the adapter lets
\* through.
CallbackRaises ==
    /\ adapter_pc' = "raised"
    /\ events_left' = Tail(events_left)
    /\ UNCHANGED <<adapter_args, saw_delta, output_parts, delta_parts,
                   assistant_text, result_text, adapter_text>>

\* json.loads raised JSONDecodeError and on_stdout_line returns.
LineDropped ==
    /\ events_left' = Tail(events_left)
    /\ UNCHANGED <<adapter_args, adapter_pc, saw_delta, output_parts,
                   delta_parts, assistant_text, result_text, adapter_text>>

\* event.get of a value that is no dict raises AttributeError.
get(event) == event.json = "object"

AdapterInit ==
    /\ RunOff
    /\ InvokeOff
    /\ RunnerOff
    /\ RestOff
    /\ \E args \in AdapterArgs : AdapterStarted(args)
    /\ adapter_pc = "stream"

\* codex.py, on_stdout_line of invoke_codex.
CodexLine ==
    /\ adapter_pc = "stream"
    /\ adapter_args.provider = "codex"
    /\ events_left # <<>>
    /\ IF Head(events_left).json = "invalid"
       THEN LineDropped
       ELSE /\ LET extracted == _extract_assistant_text(Head(events_left),
                                                        saw_delta)
               IN  /\ saw_delta' = extracted.saw_delta
                   /\ output_parts' = IF extracted.text # <<>>
                                      THEN Append(output_parts, extracted.text)
                                      ELSE output_parts
            /\ events_left' = Tail(events_left)
            /\ UNCHANGED <<adapter_args, adapter_pc, delta_parts,
                           assistant_text, result_text, adapter_text>>
    /\ UNCHANGED outside_adapter

\* gemini.py, on_stdout_line of _invoke_gemini_cli in stream-json mode.
GeminiLine ==
    /\ adapter_pc = "stream"
    /\ adapter_args.provider = "gemini"
    /\ events_left # <<>>
    /\ IF Head(events_left).json = "invalid"
       THEN LineDropped
       ELSE IF ~get(Head(events_left))
       THEN CallbackRaises
       ELSE /\ LET extracted == _extract_gemini_text(Head(events_left),
                                                     saw_delta)
               IN  /\ saw_delta' = extracted.saw_delta
                   /\ output_parts' = IF extracted.text # <<>>
                                      THEN Append(output_parts, extracted.text)
                                      ELSE output_parts
            /\ events_left' = Tail(events_left)
            /\ UNCHANGED <<adapter_args, adapter_pc, delta_parts,
                           assistant_text, result_text, adapter_text>>
    /\ UNCHANGED outside_adapter

\* claude_minimax.py, on_stdout_line of invoke_claude_minimax.
ClaudeLine ==
    /\ adapter_pc = "stream"
    /\ adapter_args.provider = "claude-minimax"
    /\ events_left # <<>>
    /\ IF Head(events_left).json = "invalid"
       THEN LineDropped
       ELSE IF ~get(Head(events_left))
       THEN CallbackRaises
       ELSE /\ LET event == Head(events_left)
               IN  /\ delta_parts' =
                         IF event.type = "stream_event" /\ event.text # <<>>
                         THEN Append(delta_parts, event.text) ELSE delta_parts
                   /\ assistant_text' =
                         IF event.type = "assistant" /\ event.text # <<>>
                         THEN event.text ELSE assistant_text
                   /\ result_text' =
                         IF event.type = "result" /\ event.text # <<>>
                         THEN event.text ELSE result_text
            /\ events_left' = Tail(events_left)
            /\ UNCHANGED <<adapter_args, adapter_pc, saw_delta, output_parts,
                           adapter_text>>
    /\ UNCHANGED outside_adapter

\* The stream has ended and the adapter returns its result.
AdapterReturns ==
    /\ adapter_pc = "stream"
    /\ events_left = <<>>
    /\ adapter_text' =
          CASE adapter_args.provider = "codex" -> JoinParts(output_parts)
            [] adapter_args.provider = "gemini" -> _pick_gemini_final_text(output_parts)
            [] adapter_args.provider = "claude-minimax" ->
                  _pick_final_text(result_text, assistant_text, delta_parts)
    /\ adapter_pc' = "returned"
    /\ UNCHANGED <<adapter_args, events_left, saw_delta, output_parts, delta_parts,
                   assistant_text, result_text>>
    /\ UNCHANGED outside_adapter

AdapterNext ==
    \/ CodexLine
    \/ GeminiLine
    \/ ClaudeLine
    \/ AdapterReturns

SpecAdapter == AdapterInit /\ [][AdapterNext]_all_vars

(***************************************************************************)
(* Steps of a call of _collapse_repeated_json_objects and of a second call *)
(* on what the first returned.                                             *)
(***************************************************************************)
\* The Off predicates of the four components above.
CoreOff == RunOff /\ InvokeOff /\ RunnerOff /\ AdapterOff

core_vars == <<vars, invoke_vars, runner_vars, adapter_vars>>

outside_collapse == <<core_vars, gate_vars, late_vars>>

CollapseInit ==
    /\ CoreOff
    /\ GateOff
    /\ LateOff
    /\ collapse_text \in CollapseTexts
    /\ collapse_pc = "start"
    /\ collapsed = <<>>
    /\ collapsed_again = <<>>

CollapseOnce ==
    /\ collapse_pc = "start"
    /\ collapsed' = _collapse_repeated_json_objects(collapse_text)
    /\ collapse_pc' = "once"
    /\ UNCHANGED <<collapse_text, collapsed_again, outside_collapse>>

CollapseTwice ==
    /\ collapse_pc = "once"
    /\ collapsed_again' = _collapse_repeated_json_objects(collapsed)
    /\ collapse_pc' = "twice"
    /\ UNCHANGED <<collapse_text, collapsed, outside_collapse>>

CollapseNext == CollapseOnce \/ CollapseTwice

SpecCollapse == CollapseInit /\ [][CollapseNext]_all_vars

(***************************************************************************)
(* Steps of the checks of one attempt (orchestrator.py 1407-1515): the     *)
(* validator, the command policy, the workdir check, the deliverable       *)
(* check, and the decision to take the reply or to ask again.              *)
(***************************************************************************)
outside_gate == <<core_vars, collapse_vars, late_vars>>

GateInit ==
    /\ CoreOff
    /\ CollapseOff
    /\ LateOff
    /\ gate_args \in GateAttempts
    /\ gate_pc = "validate"
    /\ gate_is_valid = FALSE
    /\ gate_errors = <<>>
    /\ gate_content = JAbsent

\* validate_json_protocol_content for the reviewer and for the developer.
validate_payload(agent_name, payload) ==
    IF agent_name = STELLA THEN validate_review(payload) ELSE validate_delivery(payload)

\* Lines 1407-1435.  A TypeError of the validator leaves the turn loop.
ValidateReply ==
    /\ gate_pc = "validate"
    /\ LET parsed == validate_payload(gate_args.agent, gate_args.payload) IN
       IF parsed.raised
       THEN /\ gate_pc' = "raised"
            /\ UNCHANGED <<gate_is_valid, gate_errors, gate_content>>
       ELSE /\ gate_is_valid' = parsed.ok
            /\ gate_errors' = parsed.errors
            /\ gate_content' = parsed.parsed_content
            /\ gate_pc' = IF parsed.ok THEN "policy" ELSE "completed"
    /\ UNCHANGED <<gate_args, outside_gate>>

Commands == collect_commands(gate_content, gate_args.agent)

\* Lines 1436-1445.
CommandPolicy ==
    /\ gate_pc = "policy"
    /\ LET safety_errors == command_policy_errors(Commands, gate_args.allowlist,
                                                  gate_args.denylist) IN
       IF safety_errors # <<>>
       THEN /\ gate_is_valid' = FALSE
            /\ gate_errors' = gate_errors \o safety_errors
       ELSE UNCHANGED <<gate_is_valid, gate_errors>>
    /\ gate_pc' = "workdir"
    /\ UNCHANGED <<gate_args, gate_content, outside_gate>>

\* Lines 1446-1464.
WorkdirVerify ==
    /\ gate_pc = "workdir"
    /\ LET workdir_errors == command_workdir_errors(Commands) IN
       IF /\ gate_is_valid
          /\ gate_args.agent \in {LINA_BELL, STELLA}
          /\ workdir_errors # <<>>
       THEN /\ gate_is_valid' = FALSE
            /\ gate_errors' = gate_errors \o workdir_errors
       ELSE UNCHANGED <<gate_is_valid, gate_errors>>
    /\ gate_pc' = "delivery"
    /\ UNCHANGED <<gate_args, gate_content, outside_gate>>

\* Lines 1465-1492.
DeliveryVerify ==
    /\ gate_pc = "delivery"
    /\ LET delivery_errors == verify_delivery_deliverables(gate_content) IN
       IF /\ gate_is_valid
          /\ gate_args.agent = LINA_BELL
          /\ gate_args.response_mode = "execute"
          /\ ~gate_args.read_only
          /\ delivery_errors # <<>>
       THEN /\ gate_is_valid' = FALSE
            /\ gate_errors' = gate_errors \o delivery_errors
       ELSE UNCHANGED <<gate_is_valid, gate_errors>>
    /\ gate_pc' = "completed"
    /\ UNCHANGED <<gate_args, gate_content, outside_gate>>

\* Lines 1493-1515: a valid reply leaves the attempt loop and is appended to
\* the transcript, any other is answered with the repair prompt.
AttemptCompleted ==
    /\ gate_pc = "completed"
    /\ gate_pc' = IF gate_is_valid THEN "appended" ELSE "rejected"
    /\ UNCHANGED <<gate_args, gate_is_valid, gate_errors, gate_content, outside_gate>>

GateNext ==
    \/ ValidateReply
    \/ CommandPolicy
    \/ WorkdirVerify
    \/ DeliveryVerify
    \/ AttemptCompleted

SpecGate == GateInit /\ [][GateNext]_all_vars

EarlyOff == CoreOff /\ CollapseOff /\ GateOff

early_vars == <<core_vars, collapse_vars, gate_vars>>

outside_config == <<early_vars, session_vars, audit_vars, last_vars>>

(***************************************************************************)
(* Loads of the configuration, rewrites of its files and changes the       *)
(* caller makes to the records it was given.                               *)
(***************************************************************************)
ConfigInit ==
    /\ EarlyOff
    /\ SessionOff
    /\ AuditOff
    /\ LastOff
    /\ config_pc = "idle"
    /\ config_files \in [base : {NoFile} \cup {ConfigFile(0, text) : text \in ConfigTexts},
                         local : {NoFile} \cup {ConfigFile(0, text) : text \in ConfigTexts}]
    /\ fs_clock = 0
    /\ config_cache = NoEntry
    /\ held = deepcopy(NoConfig)
    /\ loaded = NoConfig
    /\ cache_hit = FALSE
    /\ filled_from = NoFiles
    /\ mutated = FALSE
    /\ reverted = FALSE

current_sig == <<_file_signature(config_files.base), _file_signature(config_files.local)>>

\* load_runtime_config (lines 390-406).
load_runtime_config ==
    /\ config_pc \in {"idle", "loaded"}
    /\ config_pc' = "loaded"
    /\ IF config_cache.filled /\ config_cache.sig = current_sig
       THEN /\ held' = deepcopy(config_cache.config)
            /\ loaded' = config_cache.config
            /\ cache_hit' = TRUE
            /\ UNCHANGED <<config_cache, filled_from, reverted>>
       ELSE LET merged == _deep_merge_dict(
                              _deep_merge_dict(DEFAULT_CONFIG,
                                               _load_toml_dict(config_files.base)),
                              _load_toml_dict(config_files.local))
                normalized == _normalize_config(merged)
            IN  /\ config_cache' = [filled |-> TRUE, sig |-> current_sig,
                                    config |-> normalized]
                /\ held' = deepcopy(normalized)
                /\ loaded' = normalized
                /\ cache_hit' = FALSE
                /\ filled_from' = config_files
                /\ reverted' = FALSE
    /\ UNCHANGED <<config_files, fs_clock, mutated, outside_config>>

\* The caller sets defaults.provider of the record it holds, as
\* test_cache_returns_copy_and_detects_file_change does.
MutateReturned ==
    /\ config_pc = "loaded"
    /\ config_pc' = "idle"
    /\ mutated' = TRUE
    /\ IF held.alias
       THEN /\ config_cache' = [config_cache EXCEPT !.config.provider = "mutated"]
            /\ UNCHANGED held
       ELSE /\ held' = [held EXCEPT !.value.provider = "mutated"]
            /\ UNCHANGED config_cache
    /\ UNCHANGED <<config_files, fs_clock, loaded, cache_hit, filled_from, reverted,
                   outside_config>>

\* The config file or its override is written anew with a text that changes
\* its mtime or its size.
RewriteFile ==
    /\ config_pc \in {"idle", "loaded"}
    /\ \E name \in {"base", "local"}, text \in ConfigTexts :
         LET written_file == ConfigFile(fs_clock, text) IN
         /\ _file_signature(written_file) # _file_signature(config_files[name])
         /\ config_files' = [config_files EXCEPT ![name] = written_file]
         /\ reverted' =
               (reverted \/
                  /\ config_cache.filled
                  /\ _file_signature(written_file) =
                         config_cache.sig[IF name = "base" THEN 1 ELSE 2])
    /\ config_pc' = "idle"
    /\ UNCHANGED <<fs_clock, config_cache, held, loaded, cache_hit, filled_from,
                   mutated, outside_config>>

\* Time passes on the filesystem clock.
ClockTick ==
    /\ config_pc \in {"idle", "loaded"}
    /\ fs_clock < MaxMtime
    /\ fs_clock' = fs_clock + 1
    /\ config_pc' = "idle"
    /\ UNCHANGED <<config_files, config_cache, held, loaded, cache_hit, filled_from,
                   mutated, reverted, outside_config>>

ConfigNext ==
    \/ load_runtime_config
    \/ MutateReturned
    \/ RewriteFile
    \/ ClockTick

SpecConfig == ConfigInit /\ [][ConfigNext]_all_vars

outside_session == <<early_vars, config_vars, audit_vars, last_vars>>

(***************************************************************************)
(* Operations on the session store, one after the other.                   *)
(***************************************************************************)
SessionInit ==
    /\ EarlyOff
    /\ ConfigOff
    /\ AuditOff
    /\ LastOff
    /\ session_pc = "idle"
    /\ SESSION_FILE \in
          {FileAbsent, FileUnreadable}
          \cup {FileOf(store) :
                  store \in [StoreProviders ->
                                {Missing, [type |-> "str"], StoreEntry(<<"a">>, 0),
                                 StoreEntry(<<>>, 0)}]}
    /\ session_now = 0
    /\ session_op = NoOp
    /\ session_before = EmptyStore
    /\ session_got = NoGot

\* set_session_id (lines 71-78).
SetSessionId ==
    /\ session_pc \in {"idle", "got"}
    /\ \E provider \in StoreProviders, session_id \in StoredIds :
         LET store == load_session_store(SESSION_FILE) IN
         /\ SESSION_FILE' = save_session_store(
                               store_assign(store, provider,
                                            StoreEntry(session_id, session_now)))
         /\ session_op' = [op |-> "set", provider |-> provider, session_id |-> session_id]
         /\ session_before' = store
    /\ session_pc' = "idle"
    /\ UNCHANGED <<session_now, session_got, outside_session>>

\* clear_session_id (lines 81-86).
ClearSessionId ==
    /\ session_pc \in {"idle", "got"}
    /\ \E provider \in StoreProviders :
         LET store == load_session_store(SESSION_FILE) IN
         /\ SESSION_FILE' =
               IF store[provider] # Missing
               THEN save_session_store(store_assign(store, provider, Missing))
               ELSE SESSION_FILE
         /\ session_op' = [op |-> "clear", provider |-> provider, session_id |-> <<>>]
         /\ session_before' = store
    /\ session_pc' = "idle"
    /\ UNCHANGED <<session_now, session_got, outside_session>>

\* get_session_id (lines 60-68).
GetSessionId ==
    /\ session_pc \in {"idle", "got"}
    /\ \E provider \in StoreProviders :
         session_got' = [provider |-> provider,
                         value |-> get_session_id_of(load_session_store(SESSION_FILE),
                                                  provider)]
    /\ session_pc' = "got"
    /\ UNCHANGED <<SESSION_FILE, session_now, session_op, session_before,
                   outside_session>>

\* Time passes.
SessionTick ==
    /\ session_pc \in {"idle", "got"}
    /\ session_now < MaxStamp
    /\ session_now' = session_now + 1
    /\ UNCHANGED <<session_pc, SESSION_FILE, session_op, session_before, session_got,
                   outside_session>>

SessionNext ==
    \/ SetSessionId
    \/ ClearSessionId
    \/ GetSessionId
    \/ SessionTick

SpecSession == SessionInit /\ [][SessionNext]_all_vars

outside_audit == <<early_vars, config_vars, session_vars, last_vars>>

(***************************************************************************)
(* One run as the audit logger sees it.                                    *)
(***************************************************************************)
AuditInit ==
    /\ EarlyOff
    /\ ConfigOff
    /\ SessionOff
    /\ LastOff
    /\ audit_pc = "construct"
    /\ audit_fault \in AuditFaults
    /\ audit_plan \in AuditPlans
    /\ audit_plan.fail_at <= audit_plan.rounds
    /\ audit_turns = 0
    /\ audit_error = FALSE
    /\ audit_outcome = "None"
    /\ audit_lines = <<>>
    /\ summary_on_disk = NoSummaryFile

\* AuditLogger.log and _write_jsonl (lines 114-135): the lines the file may
\* hold after the append; an OSError leaves the file as it was.
Appended(event) ==
    IF ~audit_plan.enabled \/ audit_fault = "open" THEN {audit_lines}
    ELSE IF audit_fault = "append" THEN {audit_lines, Append(audit_lines, event)}
    ELSE {Append(audit_lines, event)}

\* AuditLogger.__init__ (lines 70-97) as orchestrator.py 1101 calls it, and
\* the run.started event: base_dir.mkdir is not guarded.
ConstructLogger ==
    /\ audit_pc = "construct"
    /\ IF audit_plan.enabled /\ audit_fault = "mkdir"
       THEN /\ audit_pc' = "done"
            /\ audit_outcome' = "OSError"
            /\ UNCHANGED audit_lines
       ELSE /\ audit_pc' = "turns"
            /\ audit_lines' \in Appended("run.started")
            /\ UNCHANGED audit_outcome
    /\ UNCHANGED <<audit_fault, audit_plan, audit_turns, audit_error, summary_on_disk,
                   outside_audit>>

\* One turn: invoke raises (run.failed is logged, lines 1596-1604) or the
\* turn is appended (turn.completed, line 1564).
AuditTurn ==
    /\ audit_pc = "turns"
    /\ IF audit_plan.fail_at = audit_turns + 1
       THEN /\ audit_error' = TRUE
            /\ audit_lines' \in Appended("run.failed")
            /\ audit_pc' = "finalize"
            /\ UNCHANGED audit_turns
       ELSE /\ audit_turns' = audit_turns + 1
            /\ audit_lines' \in Appended("turn.completed")
            /\ audit_pc' = IF audit_turns + 1 = audit_plan.rounds
                           THEN "finalize" ELSE "turns"
            /\ UNCHANGED audit_error
    /\ UNCHANGED <<audit_fault, audit_plan, audit_outcome, summary_on_disk, outside_audit>>

\* finalize, lines 139-152: the run.finalized event.
FinalizeEvent ==
    /\ audit_pc = "finalize"
    /\ audit_lines' \in Appended("run.finalized")
    /\ audit_pc' = IF audit_plan.enabled THEN "summary_open" ELSE "return"
    /\ UNCHANGED <<audit_fault, audit_plan, audit_turns, audit_error, audit_outcome,
                   summary_on_disk, outside_audit>>

\* summary_file.write_text, the opening: the file is created empty, or the
\* OSError of the opening is swallowed (lines 153-167).
SummaryOpen ==
    /\ audit_pc = "summary_open"
    /\ IF audit_fault \in {"open", "summary"}
       THEN audit_pc' = "return" /\ UNCHANGED summary_on_disk
       ELSE /\ audit_pc' = "summary_write"
            /\ summary_on_disk' = [NoSummaryFile EXCEPT !.state = "empty"]
    /\ UNCHANGED <<audit_fault, audit_plan, audit_turns, audit_error, audit_outcome,
                   audit_lines, outside_audit>>

\* summary_file.write_text, the writing of the text into the open file.
SummaryWrite ==
    /\ audit_pc = "summary_write"
    /\ summary_on_disk' =
          [state |-> "complete", run_id |-> "run_id",
           status |-> IF audit_error THEN "failed" ELSE "success",
           turns_completed |-> audit_turns]
    /\ audit_pc' = "return"
    /\ UNCHANGED <<audit_fault, audit_plan, audit_turns, audit_error, audit_outcome,
                   audit_lines, outside_audit>>

\* Lines 1605 and 1621-1648: the error is raised again, or the result is
\* returned.
AuditReturn ==
    /\ audit_pc = "return"
    /\ audit_outcome' = IF audit_error THEN "raised" ELSE "returned"
    /\ audit_pc' = "done"
    /\ UNCHANGED <<audit_fault, audit_plan, audit_turns, audit_error, audit_lines,
                   summary_on_disk, outside_audit>>

\* The process is killed during finalize.
CrashInFinalize ==
    /\ audit_pc \in {"finalize", "summary_open", "summary_write"}
    /\ audit_pc' = "crashed"
    /\ UNCHANGED <<audit_fault, audit_plan, audit_turns, audit_error, audit_outcome,
                   audit_lines, summary_on_disk, outside_audit>>

AuditNext ==
    \/ ConstructLogger
    \/ AuditTurn
    \/ FinalizeEvent
    \/ SummaryOpen
    \/ SummaryWrite
    \/ AuditReturn
    \/ CrashInFinalize

SpecAudit == AuditInit /\ [][AuditNext]_all_vars

(***************************************************************************)
(* Steps of _validate_agent_output for a reply that is text.               *)
(***************************************************************************)
PriorOff == EarlyOff /\ ConfigOff /\ SessionOff /\ AuditOff

prior_vars == <<early_vars, config_vars, session_vars, audit_vars>>

outside_adapt == <<prior_vars, truncate_vars>>

\* The lines of the replies: a header for each section, one of them with
\* hashes before it, a header with text after it, three conclusions (有条件通过,
\* 不通过, 通过), an issue with a severity, a table row, a bullet and nothing
\* else, a numbered line, and a JSON object.
ConclusionHeader == <<"#", "#", "#", " ", "[", CONCLUSION, "]">>
ChecklistHeader == <<"[", CHECKLIST, "]">>
RootCauseHeader == <<"[", ROOT_CAUSE, "]">>
IssueListHeader == <<"[", ISSUE_LIST, "]">>
GateHeader == <<"[", REGRESSION_GATE, "]">>
HeaderWithText == <<"[", REGRESSION_GATE, "]", " ", "a">>
ConditionalLine == <<"youtiaojian", "tongguo">>
FailLine == <<"bu", "tongguo">>
PassLine == <<"tongguo">>
BlockingIssueLine == <<"-", " ", "P", "1", ":", " ", "a">>
TableRow == <<"|", "1", "|", "P", "2", "|", "a", "|">>
BareBullet == <<"-">>
NumberedLine == <<"1", ".", " ", "a">>
ObjectLine == <<"{", "}">>

ReplyLines ==
    {ConclusionHeader, ChecklistHeader, RootCauseHeader, IssueListHeader,
     GateHeader, HeaderWithText, ConditionalLine, FailLine, PassLine,
     BlockingIssueLine, TableRow, BareBullet, NumberedLine, ObjectLine}

AdaptArgs ==
    {[current_agent |-> agent, peer_agent |-> _next_agent(agent), lines |-> lines] :
        agent \in {DUFFY, LINA_BELL, STELLA}, lines \in SeqsUpTo(ReplyLines, MaxLines)}

AdaptInit ==
    /\ PriorOff
    /\ TruncateOff
    /\ adapt_args \in AdaptArgs
    /\ adapt_pc = "parse"
    /\ adapt_payload = NoPayload
    /\ adapt_result = Rejected

\* raw = (output or "").strip().
Raw == strip(JoinNewline(adapt_args.lines))

\* Lines 345-347 and 462-481: an empty reply is rejected; json.loads, the
\* first embedded object or the adapted review give the payload, and a reply
\* that gives none, or a value that is not a dict, is rejected.
ParseOutput ==
    /\ adapt_pc = "parse"
    /\ adapt_payload' = IF Raw = <<>> THEN NoPayload
                        ELSE LoadedPayload(adapt_args.current_agent, Raw,
                                           adapt_args.peer_agent, DecodeValues(Raw, 1))
    /\ adapt_pc' = IF adapt_payload' \in {NoPayload, NotDict} THEN "returned"
                   ELSE "validate"
    /\ UNCHANGED <<adapt_args, adapt_result, outside_adapt>>

\* Lines 483-493: validate_json_protocol_content and what is returned.
ValidatePayload ==
    /\ adapt_pc = "validate"
    /\ adapt_result' = validate_for(adapt_args.current_agent, adapt_payload)
    /\ adapt_pc' = "returned"
    /\ UNCHANGED <<adapt_args, adapt_payload, outside_adapt>>

AdaptNext == ParseOutput \/ ValidatePayload

SpecAdaptReview == AdaptInit /\ [][AdaptNext]_all_vars

(***************************************************************************)
(* A string field and a history text, each cut to a limit.                 *)
(***************************************************************************)
outside_truncate == <<prior_vars, adapt_vars>>

\* The texts and the limits the model tries: max_chars and field_max_chars
\* are int(...) of what the configuration holds, so 0 is among them.
TruncateArgs == [text : TextsUpTo(MaxText), max_chars : 0..MaxChars]

TruncateInit ==
    /\ PriorOff
    /\ AdaptOff
    /\ truncate_args \in TruncateArgs
    /\ truncate_pc = "start"
    /\ truncated = <<>>

\* A string field of a summary is given to _truncate_text.
TruncateField ==
    /\ truncate_pc = "start"
    /\ truncated' = _truncate_text(truncate_args.text, truncate_args.max_chars)
    /\ truncate_pc' = "field"
    /\ UNCHANGED <<truncate_args, outside_truncate>>

\* The joined lines of _format_history, which are not empty, are capped.
CapHistory ==
    /\ truncate_pc = "start"
    /\ truncate_args.text # <<>>
    /\ truncated' = cap_history(truncate_args.text, truncate_args.max_chars)
    /\ truncate_pc' = "history"
    /\ UNCHANGED <<truncate_args, outside_truncate>>

TruncateNext == TruncateField \/ CapHistory

SpecTruncate == TruncateInit /\ [][TruncateNext]_all_vars





(***************************************************************************)
(* Properties of a run.                                                    *)
(***************************************************************************)
Terminated == pc \in {"returned", "raised"}

HasEvent(lg, e, t, a) ==
    \E i \in 1..Len(lg) : lg[i].event = e /\ lg[i].turn = t /\ lg[i].attempt = a

CountEvent(lg, e) == Cardinality({i \in 1..Len(lg) : lg[i].event = e})

\* The events a step appends to the log.
NewEvents == (Len(log) + 1)..Len(log')

\* The cyclic order duffy -> linabell -> stella -> duffy, written out.
CyclicSuccessor(agent) ==
    CASE agent = "duffy" -> "linabell"
      [] agent = "linabell" -> "stella"
      [] agent = "stella" -> "duffy"

----------------------------------------------------------------------------
\* C1: the transcript holds entries only for replies that passed the
\* validator and every applicable safety-gate check: the content of every
\* entry is accepted by validator and gate for the entry's agent with an empty
\* error list, the log (when enabled) has the turn.attempt.completed event of
\* the entry's last attempt with is_valid true, and a step that appends an
\* entry is taken with is_valid true and protocol_errors empty for the reply
\* invoke returned last.
C1_EntriesAccepted ==
    \A i \in 1..Len(transcript) :
        LET entry == transcript[i]
            g == GateResult(entry.agent, entry.protocol_content, cfg)
        IN  /\ entry.protocol_content # NoReply
            /\ g.is_valid
            /\ g.errors = <<>>
            /\ cfg.log_enabled =>
                 \E j \in 1..Len(log) :
                    log[j] = Event("turn.attempt.completed", entry.turn,
                                   entry.attempts, "valid")

C1_AppendOnlyAccepted ==
    transcript' # transcript =>
        /\ is_valid
        /\ protocol_errors = <<>>
        /\ GateResult(current_agent, result, cfg).is_valid
        /\ GateResult(current_agent, result, cfg).errors = <<>>
        /\ Len(transcript') = Len(transcript) + 1
        /\ transcript'[Len(transcript')].protocol_content =
              ParsedPayload(current_agent, result)

C1_TranscriptOnlyValid == []C1_EntriesAccepted /\ [][C1_AppendOnlyAccepted]_vars

\* A turn was recorded after two of its replies had been rejected.
C1_Witness ==
    /\ Len(transcript) >= 1
    /\ transcript[1].attempts = 3
    /\ transcript[1].agent = LINA_BELL

----------------------------------------------------------------------------
\* C2: the transcript never has more entries than rounds, its i-th entry has
\* turn number i, its first entry is by the normalized start agent and every
\* later entry is by the successor, in the cyclic order, of the agent of the
\* entry before it.
C2_TranscriptShape ==
    /\ Len(transcript) <= cfg.rounds
    /\ \A i \in 1..Len(transcript) : transcript[i].turn = i
    /\ Len(transcript) >= 1 =>
         transcript[1].agent = normalize_agent_name(cfg.start_agent)
    /\ \A i \in 2..Len(transcript) :
         transcript[i].agent = CyclicSuccessor(transcript[i - 1].agent)

\* Three turns from an alias of linabell: the order wraps around to duffy.
C2_Witness ==
    /\ cfg.start_agent = "codex"
    /\ Len(transcript) = 3
    /\ transcript[3].agent = DUFFY

----------------------------------------------------------------------------
\* C3: invoke is called at most MAX_PROTOCOL_RETRY + 1 times within a turn;
\* once that many replies of a turn have all been rejected there is no
\* further invoke call, no turn record and no later turn, and the step out of
\* the attempt loop fails the run with a run-level error that carries the
\* error codes of the last reply; after a run-level error nothing is invoked,
\* recorded or started.
C3_InvokeBudget ==
    \A t \in DOMAIN invoke_calls : invoke_calls[t] <= MAX_PROTOCOL_RETRY + 1

AllAttemptsRejected ==
    /\ pc \in {"attempt", "after_attempts"}
    /\ invoke_calls[turn] = MAX_PROTOCOL_RETRY + 1
    /\ ~GateResult(current_agent, result, cfg).is_valid

C3_ExhaustionFails ==
    /\ AllAttemptsRejected =>
         /\ invoke_calls' = invoke_calls
         /\ transcript' = transcript
         /\ turn' = turn
         /\ Len(transcript) = turn - 1
         /\ pc = "after_attempts" =>
              /\ pc' = "finally"
              /\ run_error'.error_type = "RuntimeError"
              /\ run_error'.errors = GateResult(current_agent, result, cfg).errors
              /\ run_error'.errors # <<>>
    /\ run_error # NoError =>
         /\ invoke_calls' = invoke_calls
         /\ transcript' = transcript
         /\ turn' = turn
         /\ run_error' = run_error

C3_RetryBudget == []C3_InvokeBudget /\ [][C3_ExhaustionFails]_vars

\* The second turn used up its attempts and the run failed.
C3_Witness ==
    /\ pc = "raised"
    /\ run_error.error_type = "RuntimeError"
    /\ turn = 2
    /\ invoke_calls[2] = MAX_PROTOCOL_RETRY + 1
    /\ Len(transcript) = 1

----------------------------------------------------------------------------
\* C4: an attempt that follows a rejected attempt of the same turn is issued
\* with a prompt whose repair instruction carries the errors of the rejected
\* reply; a turn record is appended only for a reply that passes, exactly
\* once for its turn, with attempts equal to the number of invoke calls of the
\* turn and with the content of the reply returned last, and with it the run
\* moves on to the next agent of the cyclic order.
C4_RepairThenAccept ==
    /\ (attempt_count >= 1 /\ attempt_count' = attempt_count + 1) =>
         /\ ~GateResult(current_agent, result, cfg).is_valid
         /\ adjusted_prompt'.turn = turn
         /\ adjusted_prompt'.attempt = attempt_count + 1
         /\ adjusted_prompt'.extra_instruction =
               GateResult(current_agent, result, cfg).errors
         /\ adjusted_prompt'.extra_instruction # <<>>
    /\ transcript' # transcript =>
         /\ GateResult(current_agent, result, cfg).is_valid
         /\ Len(transcript) = turn - 1
         /\ transcript' = Append(transcript,
               [turn |-> turn, agent |-> current_agent,
                attempts |-> invoke_calls[turn],
                protocol_content |-> ParsedPayload(current_agent, result)])
         /\ current_agent' = CyclicSuccessor(current_agent)

C4_Repair == [][C4_RepairThenAccept]_vars

\* The first reply of turn 1 was rejected, the second passed and was recorded
\* with attempts = 2; the prompt built last carried a repair instruction.
C4_Witness ==
    /\ Len(transcript) = 1
    /\ transcript[1].attempts = 2
    /\ adjusted_prompt.turn = 1
    /\ adjusted_prompt.attempt = 2
    /\ adjusted_prompt.extra_instruction # <<>>
    /\ current_agent = CyclicSuccessor(transcript[1].agent)

----------------------------------------------------------------------------
\* C5: when invoke raises during turn k the step that logs
\* turn.attempt.failed also raises out of the loops; from then on there is no
\* invoke call, the transcript keeps its k-1 entries, and the run ends with
\* status failed and turns_completed = k-1.
C5_AfterInvokeError ==
    run_error.error_type = "ProcessExecutionError" =>
        /\ pc \in {"finally", "raised"}
        /\ Len(transcript) = turn - 1
        /\ run_error.turns_completed = turn - 1
        /\ \A t \in DOMAIN invoke_calls : t > turn => invoke_calls[t] = 0
        /\ cfg.log_enabled =>
             HasEvent(log, "turn.attempt.failed", turn, invoke_calls[turn])
        /\ pc = "raised" =>
             /\ finalize_calls = <<"failed">>
             /\ cfg.log_enabled =>
                  /\ summary_file.status = "failed"
                  /\ summary_file.turns_completed = turn - 1

C5_ErrorPropagatesAtOnce ==
    /\ (\E i \in NewEvents : log'[i].event = "turn.attempt.failed") =>
         /\ run_error'.error_type = "ProcessExecutionError"
         /\ pc' = "finally"
    /\ run_error.error_type = "ProcessExecutionError" =>
         /\ invoke_calls' = invoke_calls
         /\ transcript' = transcript
         /\ turn' = turn

C5_InvokeError == []C5_AfterInvokeError /\ [][C5_ErrorPropagatesAtOnce]_vars

\* invoke raised in the second attempt of turn 2.
C5_Witness ==
    /\ pc = "raised"
    /\ cfg.log_enabled
    /\ run_error.error_type = "ProcessExecutionError"
    /\ turn = 2
    /\ invoke_calls[2] = 2
    /\ Len(transcript) = 1

----------------------------------------------------------------------------
\* C6: a run invoked with dry_run = true never calls the provider, starts one
\* turn and one attempt only, records nothing in the transcript, and ends by
\* returning with the prompt of the first attempt of turn 1 for the start
\* agent built and recorded, whatever rounds is.
C6_DryRun ==
    cfg.dry_run =>
        /\ \A t \in DOMAIN invoke_calls : invoke_calls[t] = 0
        /\ transcript = <<>>
        /\ turn <= 1
        /\ attempt_count <= 1
        /\ pc # "raised"
        /\ pc = "returned" =>
             /\ dry_run_payload =
                   [turn |-> 1, attempt |-> 1,
                    agent |-> normalize_agent_name(cfg.start_agent),
                    extra_instruction |-> <<>>]
             /\ cfg.log_enabled =>
                  /\ CountEvent(log, "turn.started") = 1
                  /\ CountEvent(log, "prompt.stats") = 1
                  /\ CountEvent(log, "run.dry_run") = 1
                  /\ CountEvent(log, "turn.attempt.started") = 0

\* A dry run over three rounds has returned.
C6_Witness ==
    /\ cfg.dry_run
    /\ cfg.rounds = 3
    /\ pc = "returned"
    /\ dry_run_payload # NoPrompt

----------------------------------------------------------------------------
----------------------------------------------------------------------------
\* C8: with logging enabled, run.finalized is never followed by another event
\* and a run that logged run.started and has ended has logged run.finalized
\* exactly once, as its last event; a run ended by an error has run.failed
\* right before it, once, and a summary with status failed, the error record
\* and turns_completed equal to the number of turns appended.
C8_FinalizedLast ==
    cfg.log_enabled =>
        /\ \A i \in 1..Len(log) : log[i].event = "run.finalized" => i = Len(log)
        /\ (Terminated /\ HasEvent(log, "run.started", 0, 0)) =>
             /\ log[1].event = "run.started"
             /\ log[Len(log)].event = "run.finalized"
             /\ CountEvent(log, "run.finalized") = 1
             /\ log[Len(log)].info = summary_file.status
        /\ pc = "raised" =>
             /\ HasEvent(log, "run.started", 0, 0)
             /\ log[Len(log) - 1].event = "run.failed"
             /\ CountEvent(log, "run.failed") = 1
             /\ summary_file.status = "failed"
             /\ summary_file.error # NoError
             /\ summary_file.error.error_type \in {"RuntimeError", "ProcessExecutionError"}
             /\ summary_file.turns_completed = Len(transcript)
        /\ pc = "returned" =>
             /\ CountEvent(log, "run.failed") = 0
             /\ summary_file.error = NoError

\* A run failed in its third turn, after two turns had been appended.
C8_Witness ==
    /\ pc = "raised"
    /\ cfg.log_enabled
    /\ Len(transcript) = 2
    /\ summary_file.status = "failed"

----------------------------------------------------------------------------
\* C9: every event of a turn is appended to the log after the event that has
\* to precede it: turn.attempt.started of attempt a after turn.started of its
\* turn, protocol.validated of attempt a after turn.attempt.started of a,
\* turn.attempt.completed of a after protocol.validated of a, turn.completed
\* after the turn.attempt.completed (valid) of the attempt it names.
Predecessor(ev) ==
    CASE ev.event = "turn.attempt.started" -> Event("turn.started", ev.turn, 0, "")
      [] ev.event = "protocol.validated" ->
            Event("turn.attempt.started", ev.turn, ev.attempt, "")
      [] ev.event = "turn.attempt.completed" ->
            Event("protocol.validated", ev.turn, ev.attempt, "")
      [] ev.event = "turn.completed" ->
            Event("turn.attempt.completed", ev.turn, ev.attempt, "valid")

TurnEventNames ==
    {"turn.started", "turn.attempt.started", "protocol.validated",
     "turn.attempt.completed", "turn.completed"}

\* The search runs from position i - 1 backwards.
InOrderAt(lg, i) ==
    lg[i].event \in TurnEventNames \ {"turn.started"} =>
        LET before == Predecessor(lg[i])
        IN  \E k \in 1..(i - 1) : lg[i - k] = before

C9_AppendedInOrder == \A i \in NewEvents : InOrderAt(log', i)

C9_EventOrder == [][C9_AppendedInOrder]_vars

\* The log of a turn whose second attempt was accepted.
C9_Witness ==
    /\ cfg.log_enabled
    /\ Len(log) >= 1
    /\ log[Len(log)] = Event("turn.completed", 2, 2, "")

----------------------------------------------------------------------------
\* C10: a run of n rounds that is no dry run and in which every invoke call
\* returned a valid payload for the acting agent ends by returning with
\* exactly n transcript entries, one attempt each, whose schema versions
\* follow the roles in turn order (plan, delivery, review from duffy); its
\* log has run.started first, n turn.completed events and run.finalized
\* last, and its summary has status success and turns_completed = n.
RoleSchema(agent) ==
    CASE agent = "duffy" -> "friendsbar.plan.v1"
      [] agent = "linabell" -> "friendsbar.delivery.v1"
      [] agent = "stella" -> "friendsbar.review.v1"

ProviderRaised ==
    /\ Len(provider_calls') = Len(provider_calls) + 1
    /\ invoke_pc' \notin {"returned", "os_error"}

ClaimedTransient == {ErrIdleTimeout, ErrMaxTimeout, ErrNonzeroKeyword}

ClaimedNotTransient == {ErrLaunch, ErrParentSignal, ErrCallback, ErrNonzeroPlain}

----------------------------------------------------------------------------
\* C11: invoke calls the provider at most retry_attempts + 1 times; a
\* transient process error (idle_timeout, max_timeout, nonzero_exit with a
\* transient keyword) is followed by another call while fewer than
\* retry_attempts retries were made, after a sleep of
\* retry_backoff * 2^attempt, and is raised again otherwise; a process error
\* that is not transient (launch_error, parent_signal, callback_error,
\* nonzero_exit without a keyword) is raised again at once; retry_count in the
\* result is the number of retries made.
C11_CallBudget ==
    /\ invoke_args.retry_attempts >= 0 =>
         Len(provider_calls) <= invoke_args.retry_attempts + 1
    /\ invoke_args.retry_attempts < 0 => provider_calls = <<>>
    /\ \A k \in 1..Len(sleeps) :
         sleeps[k] = invoke_args.retry_backoff_s * 2^(k - 1)
    /\ invoke_pc \in {"returned", "raised"} =>
         Len(sleeps) = Len(provider_calls) - 1
    /\ invoke_pc = "returned" => invoke_result.retry_count = Len(sleeps)

C11_RetryDecision ==
    ProviderRaised =>
        /\ (provider_error' \in ClaimedTransient
              /\ Len(sleeps) < invoke_args.retry_attempts) =>
                 /\ invoke_pc' = "call"
                 /\ sleeps' = Append(sleeps,
                                invoke_args.retry_backoff_s * 2^Len(sleeps))
        /\ (provider_error' \in ClaimedTransient
              /\ Len(sleeps) >= invoke_args.retry_attempts) =>
                 /\ invoke_pc' = "raised"
                 /\ sleeps' = sleeps
        /\ provider_error' \in ClaimedNotTransient =>
             /\ invoke_pc' = "raised"
             /\ sleeps' = sleeps

----------------------------------------------------------------------------
\* C12: a nonzero_exit error whose stderr reports a TLS/SSL bad-record failure
\* is transient: with retry_attempts = 1, invoke does not raise it after the
\* first provider call but calls the provider a second time.
C12_SslBadRecordRetried ==
    (/\ invoke_args.retry_attempts = 1
     /\ Len(provider_calls) = 1
     /\ provider_error = ErrSslBadRecord) => invoke_pc # "raised"

----------------------------------------------------------------------------
\* C13: when the first provider call, made with a stored session id, fails
\* with 'No conversation found with session ID', invoke does not raise: it
\* clears the stored session id and calls the provider once more with no
\* session id, whatever retry_attempts is.
C13_StaleSessionCleared ==
    (/\ Len(provider_calls) = 1
     /\ provider_calls[1] # None
     /\ provider_error = ErrStaleSession
     /\ invoke_pc # "returned") =>
        /\ invoke_pc = "call"
        /\ last_session_id = None
        /\ session_store = None

----------------------------------------------------------------------------
\* C14: with use_session resolved to true the stored session id is read once
\* and every provider call gets it (a stored id that is blank counts as
\* none), and after a call that returned a session id that is not blank the
\* store holds the returned id; with use_session resolved to false the store
\* is neither read nor written and every provider call gets no session id.
\* The resolution meant is the explicit argument, else the configured value
\* where defaults and provider setting do not disagree.
UseSessionTrue ==
    \/ invoke_args.use_session = "true"
    \/ /\ invoke_args.use_session = None
       /\ invoke_args.defaults_use_session
       /\ invoke_args.provider_use_session # "false"

UseSessionFalse ==
    \/ invoke_args.use_session = "false"
    \/ /\ invoke_args.use_session = None
       /\ ~invoke_args.defaults_use_session
       /\ invoke_args.provider_use_session # "true"

C14_SessionInUse ==
    /\ (UseSessionTrue /\ invoke_pc \in {"call", "raised", "returned"}) =>
         /\ store_reads = 1
         /\ \A i \in 1..Len(provider_calls) : provider_calls[i] = last_session_id
         /\ invoke_pc # "returned" =>
              last_session_id =
                 IF session_store \in {None, "", " "} THEN None ELSE session_store
         /\ (invoke_pc = "returned"
               /\ invoke_result.session_id \notin {None, "", " "}) =>
                  /\ session_store = invoke_result.session_id
                  /\ store_writes = 1
    /\ UseSessionFalse =>
         /\ store_reads = 0
         /\ store_writes = 0
         /\ \A i \in 1..Len(provider_calls) : provider_calls[i] = None

C14_StoreUntouched == UseSessionFalse => session_store' = session_store

----------------------------------------------------------------------------
\* C15: without an explicit use_session argument, a provider-level setting
\* use_session = false overrides defaults.use_session = true: the session
\* store is not read and every provider call gets no session id.
C15_ProviderSettingOverrides ==
    (/\ invoke_args.use_session = None
     /\ invoke_args.provider_use_session = "false"
     /\ invoke_args.defaults_use_session) =>
        /\ store_reads = 0
        /\ \A i \in 1..Len(provider_calls) : provider_calls[i] = None

(***************************************************************************)
(* Properties of a run_stream_process call.                                *)
(***************************************************************************)
Finished == sup_pc \in {"returned", "raised"}

\* The lines of a text: the pieces between newlines, each without trailing
\* \r, and what follows the last newline when that is not empty.
RECURSIVE SplitLines(_)
SplitLines(text) ==
    IF text = <<>> THEN <<>>
    ELSE LET idx == find_newline(text)
         IN  IF idx = 0 THEN <<rstrip_cr(text)>>
             ELSE <<rstrip_cr(SubSeq(text, 1, idx - 1))>>
                  \o SplitLines(SubSeq(text, idx + 1, Len(text)))

IsPrefix(a, b) == Len(a) <= Len(b) /\ SubSeq(b, 1, Len(a)) = a

\* The outcome the classification gives a finished child.
ClassifiedOutcome ==
    /\ sup_pc = "returned" => (terminated_reason = None /\ return_code = "0")
    /\ terminated_reason # None =>
          (sup_pc = "raised" /\ raised_reason = terminated_reason)
    /\ (terminated_reason = None /\ return_code # "0") =>
          (sup_pc = "raised" /\ raised_reason = "nonzero_exit")

----------------------------------------------------------------------------
\* C16, as stated: every call that ended with the child finished has exactly
\* one outcome: it returned only with no termination reason recorded and a
\* return code of 0; with a reason recorded it raised an error carrying that
\* reason, whatever the return code; with no reason and a return code other
\* than 0 it raised nonzero_exit.
C16_EveryFinishedChild ==
    (Finished /\ ~child_alive) => ClassifiedOutcome

\* C16: the same, for every call in which on_stdout_line raised nothing; a
\* call in which it raised ends with callback_error.
C16_Classification ==
    /\ (Finished /\ ~child_alive /\ raised_reason # "callback_error") =>
          ClassifiedOutcome
    /\ (Finished /\ run_args.callback_raises_at \in 1..Len(delivered)) =>
          (sup_pc = "raised" /\ raised_reason = "callback_error")

\* A child that was terminated for idling and then exited on its own with
\* code 0 ends the call with idle_timeout.
C16_Witness ==
    /\ sup_pc = "raised"
    /\ raised_reason = "idle_timeout"
    /\ terminated_reason = "idle_timeout"
    /\ return_code = "0"

----------------------------------------------------------------------------
\* C17, as stated, in what it says of the reason: once the stop signal for
\* idling was sent to a silent child, the error the call ends with has the
\* reason idle_timeout.
C17_IdleReasonRaised ==
    (SilentChild /\ "idle_timeout" \in stop_signals /\ Finished) =>
        (sup_pc = "raised" /\ raised_reason = "idle_timeout")

\* C17: a child that stays alive and writes nothing is eventually sent a stop
\* signal for idling, and the call then eventually raises a process error,
\* with the reason idle_timeout, or max_timeout when the maximum time was
\* exceeded as well and the child outlived the first stop; it neither returns
\* nor hangs.
C17_Stopped ==
    /\ sup_pc = "raised"
    /\ "idle_timeout" \in stop_signals
    /\ raised_reason \in {"idle_timeout", "max_timeout"}
    /\ raised_reason = "max_timeout" => now > run_args.max_timeout_s

C17_SilentChildStopped ==
    /\ SilentChild ~> C17_Stopped
    /\ [](SilentChild => sup_pc # "returned")

\* A silent child that ignored terminate() was killed and the call raised
\* idle_timeout.
C17_Witness ==
    /\ SilentChild
    /\ ~run_args.obeys_terminate
    /\ sup_pc = "raised"
    /\ raised_reason = "idle_timeout"
    /\ return_code = SIGKILL_CODE

----------------------------------------------------------------------------
\* C18: on_stdout_line gets the child's stdout lines in the order the child
\* wrote them, whatever the stderr drainer and the supervisor do in between:
\* at every moment the lines passed so far are the first lines of the text
\* the child has written on stdout.
C18_StdoutOrder ==
    InCall \/ Finished =>
        IsPrefix(delivered, SplitLines(SubSeq(run_args.stdout, 1, written["stdout"])))

\* Both stdout lines were passed, with a stderr line handled before them.
C18_Witness ==
    /\ run_args.stdout = <<"a", NL, "b">>
    /\ delivered = << <<"a">>, <<"b">> >>
    /\ stderr_lines = << <<"e">> >>
    /\ sup_pc = "returned"

----------------------------------------------------------------------------
\* C19: when the child exits on its own, every line it wrote on stdout, a
\* trailing line without newline included, has been passed to on_stdout_line
\* exactly once when the call returns or raises nonzero_exit; the supervisor
\* does not leave its loop while a line is queued or a drainer can still
\* queue one.
C19_EveryLineDelivered ==
    /\ (/\ Finished
        /\ run_args.exits
        /\ sup_pc = "raised" => raised_reason = "nonzero_exit") =>
           delivered = SplitLines(run_args.stdout)
    /\ sup_pc = "wait" =>
           (line_queue = <<>> /\ \A s \in Sources : ~is_alive(s))

(***************************************************************************)
(* Properties of an adapter call.                                          *)
(***************************************************************************)
\* The final message comes after the first delta chunk.
FinalAfterDelta == adapter_args.stream[1].delta

----------------------------------------------------------------------------
Collapsed == collapse_pc \in {"once", "twice"}

\* text is X followed by X.
Doubled(text, X) == text = X \o X

Halves(text) == {SubSeq(text, 1, n) : n \in 0..Len(text)}

\* X is the text of one JSON object as json.dumps writes it with the
\* separators "," and ":".
CompactObject(X) == _is_json_object(X) /\ raw_decode(X, 1).dump = X

\* The text is, between whitespace, two or more JSON values that are equal.
EqualValues(text) ==
    LET decoded == DecodeValues(strip(text), 1)
    IN  /\ decoded.ok
        /\ Len(decoded.values) >= 2
        /\ \A i \in 1..Len(decoded.values) : decoded.values[i] = decoded.values[1]

HasCode(code) == \E i \in 1..Len(gate_errors) : gate_errors[i].code = code

HasError(code, about) == \E i \in 1..Len(gate_errors) : gate_errors[i] = Error(code, about)

\* The validator has returned (it did not raise).
ValidatorReturned == gate_pc \notin {"off", "validate", "raised"}

ValidatorCodes ==
    {"E_SCHEMA_INVALID_FORMAT", "E_SCHEMA_MISSING_FIELD", "E_SCHEMA_INVALID_ENUM",
     "E_REVIEW_EVIDENCE_MISSING", "E_REVIEW_GATE_INCONSISTENT"}

\* The validator has returned with ok.
ReportedOk == ValidatorReturned /\ \A code \in ValidatorCodes : ~HasCode(code)

IsReview == gate_args.agent = STELLA

IsDelivery == gate_args.agent = LINA_BELL

ItemsOf(value) == IF value.type = "list" THEN value.items ELSE <<>>

\* The verification entries of the payload with string command and result.
WellFormedEntries ==
    LET items == ItemsOf(gate_args.payload.verification)
    IN  {i \in 1..Len(items) :
            /\ items[i].type = "dict"
            /\ items[i].command.type = "str"
            /\ items[i].result.type = "str"}

\* The issues of the payload of severity P0 or P1.
BlockingIssues ==
    LET items == ItemsOf(gate_args.payload.issues)
    IN  {i \in 1..Len(items) :
            /\ items[i].type = "dict"
            /\ items[i].severity \in {JStr("P0"), JStr("P1")}}

BlockingIssuesWithSummary ==
    {i \in BlockingIssues :
        ItemsOf(gate_args.payload.issues)[i].summary.type = "str"}

AcceptancePass == gate_args.payload.acceptance = JStr("pass")

\* What C22 says of the reviews the validator reports ok.
OkReviewHasEvidence ==
    IsReview /\ ReportedOk =>
        /\ Cardinality(WellFormedEntries) >= 2
        /\ AcceptancePass => BlockingIssues = {}

Declared ==
    IF gate_args.payload.result.type = "dict"
    THEN ItemsOf(gate_args.payload.result.deliverables)
    ELSE <<>>

\* A delivery as test_delivery_json_ok has it: every field in order, and a
\* deliverables list of {path, kind, summary} entries.
DeliveryWithDeliverables ==
    /\ IsDelivery
    /\ gate_args.payload.result.type = "dict"
    /\ gate_args.payload =
          DeliveryPayload(JList(<<GoodItem(CmdLs)>>), gate_args.payload.result.deliverables)
    /\ gate_args.payload.result.deliverables.type = "list"
    /\ \A i \in 1..Len(Declared) :
           /\ Declared[i].path.type = "str"
           /\ Declared[i].kind.type = "str"
           /\ Declared[i].summary.type = "str"

\* C23: a delivery payload with the exact top-level keys, valid
\* schema_version, status and next_question, and a result with the four text
\* fields and a deliverables list of {path, kind, summary} entries passes
\* validation with no error, and the validated content keeps its deliverables.
C23_DeliverablesKept ==
    DeliveryWithDeliverables /\ gate_pc \notin {"off", "validate"} =>
        /\ ReportedOk
        /\ "deliverables" \in DOMAIN gate_content.result
        /\ gate_content.result.deliverables = gate_args.payload.result.deliverables

ExecuteMode ==
    IsDelivery /\ gate_args.response_mode = "execute" /\ ~gate_args.read_only

DeliveryCodes ==
    {"E_DELIVERY_OUTSIDE_WORKDIR", "E_DELIVERY_MISSING_DELIVERABLE",
     "E_DELIVERY_EXPECT_FILE", "E_DELIVERY_EXPECT_DIR"}

\* C24: in execute mode every deliverable declared in an accepted delivery
\* resolves to a path inside the workdir that exists and is of its kind; a
\* delivery that is in order but for a declared deliverable outside the
\* workdir, missing or of the other kind is rejected with the E_DELIVERY code
\* of that deliverable and is never appended.
C24_DeliverablesVerified ==
    ExecuteMode =>
        /\ gate_pc = "appended" =>
               \A i \in 1..Len(Declared) : DeliverableError(Declared[i]) = ""
        /\ DeliveryWithDeliverables /\ gate_pc \in {"completed", "appended", "rejected"} =>
               \A i \in 1..Len(Declared) :
                   DeliverableError(Declared[i]) \in DeliveryCodes =>
                       /\ HasCode(DeliverableError(Declared[i]))
                       /\ gate_pc # "appended"

\* The command strings of the reply.
ReplyCommands ==
    LET entries == IF IsReview THEN ItemsOf(gate_args.payload.verification)
                   ELSE IF gate_args.payload.result.type = "dict"
                   THEN ItemsOf(gate_args.payload.result.execution_evidence)
                   ELSE <<>>
    IN  {entries[i].command.s : i \in {j \in 1..Len(entries) :
            entries[j].type = "dict" /\ entries[j].command.type = "str"}}

\* A resolved path lies inside the workdir /w.
Inside(path) == Len(path) >= 1 /\ path[1] = <<"w">>

Words(cmd) == {Tokens(cmd)[i] : i \in 1..Len(Tokens(cmd))}

\* A word without the quotes, brackets and separators around it.
Bare(word) ==
    rstrip_chars(lstrip_chars(strip_chars(word, {SQUOTE, QUOTE}), {"("}),
                 {";", ",", "|", "&", ")"})

\* The absolute path tokens of a command.
AbsoluteTokens(cmd) == {Bare(word) : word \in {w \in Words(cmd) : is_absolute(Bare(w))}}

UrlLike(word) == Contains(word, <<":", "/", "/">>)

\* The absolute paths a command gives as the value of a flag.
FlagValues(cmd) ==
    {Bare(AfterEquals(word)) : word \in {w \in Words(cmd) :
        w # <<>> /\ w[1] = "-" /\ (\E i \in 1..Len(w) : w[i] = "=")
        /\ is_absolute(Bare(AfterEquals(w)))}}

\* The command references an absolute path outside the workdir.
ReferencesOutside(cmd) ==
    \E word \in AbsoluteTokens(cmd) \cup FlagValues(cmd) :
        ~UrlLike(word) /\ ~Inside(resolve(word))

\* The reply passed the validator and the command policy.
ReachedWorkdirCheck ==
    /\ gate_pc \in {"delivery", "completed", "appended", "rejected"}
    /\ ReportedOk
    /\ ~HasCode("E_SAFETY_COMMAND_DENIED")
    /\ ~HasCode("E_SAFETY_COMMAND_NOT_ALLOWED")

\* The command holds an absolute path, "://" or not, outside the workdir.
HoldsOutsidePath(cmd) ==
    \E word \in AbsoluteTokens(cmd) \cup FlagValues(cmd) : ~Inside(resolve(word))

Matches(patterns, cmd) == \E i \in 1..Len(patterns) : Contains(cmd, patterns[i])

Denied(cmd) == Matches(gate_args.denylist, cmd)

NotAllowed(cmd) == gate_args.allowlist # <<>> /\ ~Matches(gate_args.allowlist, cmd)

\* The command policy has been applied to the reply.
PolicyApplied ==
    gate_pc \in {"workdir", "delivery", "completed", "appended", "rejected"} /\ ReportedOk

\* C26: the policy gives E_SAFETY_COMMAND_DENIED to a command that matches a
\* deny pattern, also when it matches an allow pattern; with a non-empty allow
\* list it gives E_SAFETY_COMMAND_NOT_ALLOWED to a command that matches
\* neither; every other command passes, every command when the allow list is
\* empty and nothing is denied; no accepted turn holds a denied or
\* not-allowed command.
C26_DenyBeforeAllow ==
    /\ PolicyApplied =>
           \A cmd \in ReplyCommands :
               /\ HasError("E_SAFETY_COMMAND_DENIED", cmd) <=> Denied(cmd)
               /\ HasError("E_SAFETY_COMMAND_NOT_ALLOWED", cmd) <=>
                      ~Denied(cmd) /\ NotAllowed(cmd)
    /\ gate_pc = "appended" =>
           \A cmd \in ReplyCommands : ~Denied(cmd) /\ ~NotAllowed(cmd)

\* A delivery with a command that matches a deny and an allow pattern was
\* rejected as denied.
C26_Witness ==
    /\ IsDelivery
    /\ gate_pc = "rejected"
    /\ gate_args.allowlist # <<>>
    /\ CmdCatThenRm \in ReplyCommands
    /\ Matches(gate_args.allowlist, CmdCatThenRm)
    /\ HasError("E_SAFETY_COMMAND_DENIED", CmdCatThenRm)
    /\ ~HasError("E_SAFETY_COMMAND_NOT_ALLOWED", CmdCatThenRm)


(***************************************************************************)
(* Properties of the configuration cache.                                  *)
(***************************************************************************)
\* The normalized merge of the defaults, the config file and its override.
MergeOf(files) ==
    LET base_keys == IF files.base.exists THEN files.base.text
                     ELSE NoKeys
        local_keys == IF files.local.exists THEN files.local.text
                      ELSE NoKeys
        provider == IF local_keys.provider # "None" THEN local_keys.provider
                    ELSE IF base_keys.provider # "None" THEN base_keys.provider
                    ELSE "codex"
        retry == IF local_keys.retry # NoKeys.retry THEN local_keys.retry
                 ELSE IF base_keys.retry # NoKeys.retry THEN base_keys.retry
                 ELSE 10
    IN  [provider |-> provider, retry_attempts |-> retry \div 10]

SignaturesOf(files) == <<_file_signature(files.base), _file_signature(files.local)>>

\* C27 as stated: after any loads, changes of returned records and rewrites
\* that change mtime or size, load returns the normalized merge of the files
\* as they are now; a change of a returned record never shows in a later
\* load, and a cached record is not returned once a signature changed.
C27_LoadIsCurrent ==
    config_pc = "loaded" =>
        /\ loaded = MergeOf(config_files)
        /\ loaded.provider # "mutated"
        /\ cache_hit => SignaturesOf(config_files) = SignaturesOf(filled_from)

\* C27 amended: the same, as long as no rewrite has given a file back the
\* mtime and size that the cache holds for it.
C27_LoadIsCurrentUnlessReverted ==
    config_pc = "loaded" =>
        /\ ~reverted => loaded = MergeOf(config_files)
        /\ loaded.provider # "mutated"
        /\ cache_hit => SignaturesOf(config_files) = SignaturesOf(filled_from)

\* A load after the caller changed the record of an earlier load and the
\* file was rewritten was answered from the files, not from the cache, and
\* a later one from the cache.
C27_Witness ==
    /\ config_pc = "loaded"
    /\ mutated
    /\ cache_hit
    /\ ~reverted
    /\ filled_from.base.mtime > 0
    /\ loaded = MergeOf(config_files)
    /\ loaded.provider = "gemini"


(***************************************************************************)
(* Properties of the session store.                                        *)
(***************************************************************************)
\* The last get asked for the provider of the last set or clear.
GotAfter(op) ==
    /\ session_pc = "got"
    /\ session_op.op = op
    /\ session_got.provider = session_op.provider

\* A set or clear left the entries of the other providers as they were.
OthersUnchanged ==
    session_op.op \in {"set", "clear"} =>
        \A q \in StoreProviders \ {session_op.provider} :
            load_session_store(SESSION_FILE)[q] = session_before[q]

\* C28 as stated: get(p) after set(p, s) returns s, get(p) after clear(p)
\* returns None, and a set or clear on p leaves the entry of every other
\* provider unchanged.
C28_GetAfterSet ==
    /\ GotAfter("set") => session_got.value = session_op.session_id
    /\ GotAfter("clear") => session_got.value = NoSession
    /\ OthersUnchanged

\* C28 amended: get(p) after set(p, s) returns s when s holds a character
\* that is no whitespace and None otherwise, get(p) after clear(p) returns
\* None, and a set or clear on p leaves the entry of every other provider
\* unchanged.
C28_GetAfterSetOfAnId ==
    /\ GotAfter("set") =>
           session_got.value =
               IF \E i \in 1..Len(session_op.session_id) :
                      session_op.session_id[i] \notin WHITESPACE
               THEN session_op.session_id
               ELSE NoSession
    /\ GotAfter("clear") => session_got.value = NoSession
    /\ OthersUnchanged

\* The id with a leading blank was set for one provider while the other
\* held an id, and the get returned it as it was set.
C28_Witness ==
    /\ GotAfter("set")
    /\ session_op.session_id = <<" ", "a">>
    /\ session_got.value = <<" ", "a">>
    /\ \E q \in StoreProviders \ {session_op.provider} :
           /\ session_before[q] # Missing
           /\ load_session_store(SESSION_FILE)[q] = session_before[q]


(***************************************************************************)
(* Properties of the audit logger.                                         *)
(***************************************************************************)
\* How the run ends with logging working.
OutcomeOfPlan == IF audit_plan.fail_at = 0 THEN "returned" ELSE "raised"

TurnsOfPlan == IF audit_plan.fail_at = 0 THEN audit_plan.rounds ELSE audit_plan.fail_at - 1

\* C29: no failure of the audit logger changes the outcome of a run: with
\* an append failing, the summary file not writable, or the log directory
\* or files not to be made or opened at all, the run still makes all its
\* turns and returns or fails as it would with logging working.
C29_OutcomeUnchanged ==
    audit_pc = "done" =>
        /\ audit_outcome = OutcomeOfPlan
        /\ audit_turns = TurnsOfPlan

\* C30: at any moment, also when the process is killed during finalize, a
\* reader finds no summary file or the complete summary with the run id, the
\* status and the counters of the run, and the summary is written only after
\* the run.finalized event was appended.
C30_SummaryAtomic ==
    /\ summary_on_disk.state \in {"absent", "complete"}
    /\ summary_on_disk.state = "complete" =>
           /\ summary_on_disk.run_id = "run_id"
           /\ summary_on_disk.status = (IF audit_plan.fail_at = 0 THEN "success" ELSE "failed")
           /\ summary_on_disk.turns_completed = TurnsOfPlan
           /\ audit_lines # <<>>
           /\ audit_lines[Len(audit_lines)] = "run.finalized"


(***************************************************************************)
(* Properties of _validate_agent_output for a reply written in sections.   *)
(***************************************************************************)
\* The section a header line of the replies names.
NamedBy(line) ==
    CASE line = ConclusionHeader -> CONCLUSION
      [] line = ChecklistHeader -> CHECKLIST
      [] line = RootCauseHeader -> ROOT_CAUSE
      [] line = IssueListHeader -> ISSUE_LIST
      [] line = GateHeader -> REGRESSION_GATE
      [] OTHER -> None

HeadersBefore(i) == {j \in 1..(i - 1) : NamedBy(adapt_args.lines[j]) # None}

\* The section the line at index i stands under: the one the last header
\* before it names.
SectionOfLine(i) ==
    IF HeadersBefore(i) = {} THEN None
    ELSE NamedBy(adapt_args.lines[CHOOSE j \in HeadersBefore(i) :
                                      \A k \in HeadersBefore(i) : k <= j])

\* The lines under a header that are no headers.
ContentLines(name) ==
    {i \in 1..Len(adapt_args.lines) :
        NamedBy(adapt_args.lines[i]) = None /\ SectionOfLine(i) = name}

\* The reply holds a recognized header followed by content.
HoldsSection == \E name \in SECTION_NAMES : ContentLines(name) # {}

\* The reply holds a JSON object.
HoldsObject == \E i \in 1..Len(adapt_args.lines) : adapt_args.lines[i] = ObjectLine

\* What the conclusion says.
ExpectedAcceptance ==
    IF \E i \in ContentLines(CONCLUSION) : adapt_args.lines[i] = FailLine
    THEN "fail"
    ELSE IF \E i \in ContentLines(CONCLUSION) : adapt_args.lines[i] = ConditionalLine
    THEN "conditional"
    ELSE "pass"

ExpectedStatus ==
    CASE ExpectedAcceptance = "fail" -> "failed"
      [] ExpectedAcceptance = "conditional" -> "partial"
      [] OTHER -> "ok"

\* The issue lines: what stands under the issue list, but for a bullet with
\* nothing after it.
IssueLines == {i \in ContentLines(ISSUE_LIST) : adapt_args.lines[i] # BareBullet}

\* An issue line names P0 or P1.
NamesBlockingIssue == \E i \in IssueLines : adapt_args.lines[i] = BlockingIssueLine

ReturnedFor(agents) ==
    /\ adapt_pc = "returned"
    /\ adapt_args.current_agent \in agents
    /\ HoldsSection

\* The payload is a synthesized review: two verification entries or more,
\* acceptance and status as the conclusion says, an issue for each issue
\* line with the severity the line names, and the warning.
Synthesized ==
    /\ adapt_payload \notin {NoPayload, NotDict}
    /\ adapt_payload.verification.type = "list"
    /\ Len(adapt_payload.verification.items) >= 2
    /\ adapt_payload.acceptance = JStr(ExpectedAcceptance)
    /\ adapt_payload.status = JStr(ExpectedStatus)
    /\ adapt_payload.issues.type = "list"
    /\ Len(adapt_payload.issues.items) = Cardinality(IssueLines)
    /\ NamesBlockingIssue <=>
           \E k \in 1..Len(adapt_payload.issues.items) :
               adapt_payload.issues.items[k].severity \in {JStr("P0"), JStr("P1")}
    /\ adapt_payload.warnings.type = "list"
    /\ \E k \in 1..Len(adapt_payload.warnings.items) :
           adapt_payload.warnings.items[k] = JStr(ADAPTED_WARNING)

RejectedWith(code) ==
    /\ ~adapt_result.ok
    /\ \E k \in 1..Len(adapt_result.errors) : adapt_result.errors[k].code = code

KillSent == kill_signals' # kill_signals \/ (~kill_pending /\ kill_pending')

\* The terminate_process call in progress is at the end of its grace period.
GraceEnded ==
    IF handler_pc = "grace" THEN GraceOver(handler_deadline)
    ELSE sup_pc = "grace" /\ GraceOver(grace_deadline)

\* C32: on every forced termination the soft stop is sent first, to a child
\* that is running, and the hard kill is sent only at the end of the grace
\* period of a soft stop, for a reason the soft stop was sent for, and only
\* to a child that is still alive then.
C32_SoftStopThenKill ==
    [][/\ stop_signals' # stop_signals => child_alive /\ term_pending'
       /\ KillSent => /\ child_alive
                      /\ term_pending
                      /\ (kill_signals' \ kill_signals) \subseteq stop_signals
                      /\ GraceEnded]_all_vars

\* A call in which the child survived the soft stop for a grace period that
\* took time, was killed for an idle timeout, and the call ended.
C32_Witness ==
    /\ Finished
    /\ run_args.terminate_grace_s > 0
    /\ ~run_args.obeys_terminate
    /\ "idle_timeout" \in kill_signals
    /\ return_code = SIGKILL_CODE

\* The supervisor decides to terminate the child for an idle timeout.
IdleDecided == term_reason' = "idle_timeout" /\ term_reason # "idle_timeout"

C34_HandlersRestored ==
    Finished => handlers = run_args.previous /\ ~atexit_registered

\* C35: the queue between the drainers and the supervisor has a capacity, and
\* never holds more (source, line) tuples than that.
C35_QueueBounded == maxsize > 0 /\ Len(line_queue) <= maxsize

\* C40 as stated: the reason a process error reports is the first reason
\* that was recorded for a termination of the child.
C40_FirstReasonReported ==
    Finished /\ first_reason # None => raised_reason = first_reason

\* C40: the reason a process error reports is the reason of the last
\* termination sent to the child by a deadline check or a parent signal,
\* which overwrites what was recorded when it finds the child alive; it is
\* the first reason when no other was sent, and a callback error is reported
\* as callback_error whatever the cleanup records after it.
C40_LastReasonReported ==
    Finished /\ first_reason # None =>
        /\ raised_reason # "callback_error" => raised_reason = last_reason
        /\ Cardinality(stop_signals \ {"cleanup"}) = 1 =>
               raised_reason = first_reason

\* A parent signal arrived after an idle timeout had been recorded, found the
\* child alive, and the error reports the signal.
C40_Witness ==
    /\ Finished
    /\ signal_received
    /\ first_reason = "idle_timeout"
    /\ last_reason = "parent_signal"
    /\ raised_reason = "parent_signal"

(***************************************************************************)
(* Lines that are no event of the provider.                                *)
(***************************************************************************)
\* on_stdout_line is given a line that is not JSON, is JSON but no object,
\* or is an object of unknown type.
UnrecognizedLineRead ==
    /\ adapter_pc = "stream"
    /\ events_left # <<>>
    /\ Head(events_left) \in Unrecognized
    /\ events_left' = Tail(events_left)

\* C36: a stdout line that is no recognized event is ignored by every
\* adapter: what the adapter has accumulated stays as it is and the call does
\* not fail with callback_error.
C36_UnrecognizedIgnored ==
    [][UnrecognizedLineRead =>
          /\ adapter_pc' = "stream"
          /\ UNCHANGED <<saw_delta, output_parts, delta_parts, assistant_text,
                         result_text>>]_all_vars

(***************************************************************************)
(* The session store and the dispatch table of invoke.                     *)
(***************************************************************************)
\* C38: a failure to write the session-store file never makes invoke fail:
\* when the provider call succeeded, invoke returns its result.
C38_StoreIsAHint == invoke_pc # "os_error"

\* C39: the agent ids of the turn order are normalized to a provider of the
\* dispatch table, the one the agent's profile names, and no call for one of
\* them ends with the unsupported-cli error.
C39_TurnOrderDispatches ==
    InOrder(invoke_args.cli) =>
        /\ _normalize_cli(invoke_args.cli) \in PROVIDERS
        /\ _normalize_cli(invoke_args.cli) = AGENTS[invoke_args.cli].provider
        /\ invoke_pc # "unsupported_cli"

(***************************************************************************)
(* Truncation.                                                             *)
(***************************************************************************)
\* C37: for every limit of at least 1, a truncated string field and the
\* capped history text have at most that many characters.
C37_WithinLimit ==
    (truncate_pc \in {"field", "history"} /\ truncate_args.max_chars >= 1) =>
        Len(truncated) <= truncate_args.max_chars

====
